---- MODULE Spec2Model ----
(***************************************************************************)
(* Model of bide (tombeers/bide): the Path string algebra of               *)
(* source/utilities.py and the File abstraction of source/files.py.        *)
(*                                                                         *)
(* A path string is a sequence of one-character strings, so that           *)
(* separators, dots and names are handled character by character as the    *)
(* Python string methods handle them.                                      *)
(***************************************************************************)
EXTENDS Integers, Sequences, FiniteSets, TLC

VARIABLES
    osPosix,    \* os.name == 'posix' (os.sep is '/' there, '\' otherwise)
    posix,      \* Path.posix of the Path instance operated on
    a, b, c,    \* caller supplied path strings
    pc,         \* position of the caller
    flags,      \* keyword arguments of the last call
    x, y,       \* values returned to the caller
    fs,         \* the real filesystem: absolute path -> entry
    cwd,        \* the working directory of the process
    scandir,    \* the order in which the host lists a directory
    root,       \* the root argument given to File(...)
    f, g        \* File instances held by the caller

pathVars == <<osPosix, posix, a, b, c>>
fileVars == <<fs, cwd, scandir, root, f, g>>
vars == <<osPosix, posix, a, b, c, pc, flags, x, y, fs, cwd, scandir, root,
          f, g>>

-----------------------------------------------------------------------------
(* Bounds *)

MaxLen == 4        \* longest enumerated input of the one-path operations
MaxJoinLen == 4    \* longest total length of the inputs of a chain of joins

-----------------------------------------------------------------------------
(* Module constants of utilities.py *)

_POSIX_SEPARATOR == "/"
_DOS_SEPARATOR == "\\"
_SEPARATORS == {_POSIX_SEPARATOR, _DOS_SEPARATOR}
curdir == <<".">>
pardir == <<".", ".">>

(* os.sep *)
ossep(isPosix) == IF isPosix THEN "/" ELSE "\\"

(* Path.__init__: self.separator *)
separator(isPosixPath, isPosixOs) ==
    IF isPosixPath THEN _POSIX_SEPARATOR ELSE ossep(isPosixOs)

-----------------------------------------------------------------------------
(* Python string and list primitives used by Path *)

startswith(s, chars) == Len(s) > 0 /\ s[1] \in chars
endswith(s, chars) == Len(s) > 0 /\ s[Len(s)] \in chars

RECURSIVE lstrip(_, _)
lstrip(s, chars) ==
    IF s # <<>> /\ Head(s) \in chars THEN lstrip(Tail(s), chars) ELSE s

RECURSIVE rstrip(_, _)
rstrip(s, chars) ==
    IF s # <<>> /\ s[Len(s)] \in chars
    THEN rstrip(SubSeq(s, 1, Len(s) - 1), chars)
    ELSE s

(* str.rsplit(sep, -1): every piece between occurrences of sep *)
RECURSIVE rsplitAll(_, _)
rsplitAll(s, sep) ==
    IF \E i \in 1..Len(s) : s[i] = sep
    THEN LET i == CHOOSE i \in 1..Len(s) :
                    s[i] = sep /\ \A j \in (i + 1)..Len(s) : s[j] # sep
         IN  Append(rsplitAll(SubSeq(s, 1, i - 1), sep),
                    SubSeq(s, i + 1, Len(s)))
    ELSE <<s>>

(* str.rsplit(sep, 1): split once, at the last occurrence of sep *)
rsplitOnce(s, sep) ==
    IF \E i \in 1..Len(s) : s[i] = sep
    THEN LET i == CHOOSE i \in 1..Len(s) :
                    s[i] = sep /\ \A j \in (i + 1)..Len(s) : s[j] # sep
         IN  <<SubSeq(s, 1, i - 1), SubSeq(s, i + 1, Len(s))>>
    ELSE <<s>>

(* utilities.pop(collection, index, default) for index 0 and -1: the item  *)
(* removed (default when there is none) and what is left of the list       *)
pop(collection, index, default) ==
    IF collection = <<>>
    THEN [got |-> default, rest |-> <<>>]
    ELSE IF index = 0
         THEN [got |-> Head(collection), rest |-> Tail(collection)]
         ELSE [got |-> collection[Len(collection)],
               rest |-> SubSeq(collection, 1, Len(collection) - 1)]

-----------------------------------------------------------------------------
(* Path.strip *)

strip(path, side) ==
    IF side = "left" THEN lstrip(path, _SEPARATORS)
    ELSE IF side = "right" THEN rstrip(path, _SEPARATORS)
    ELSE rstrip(lstrip(path, _SEPARATORS), _SEPARATORS)

(* Path.join: self.path followed by the given paths *)
(* the separator put between the accumulated result and the next fragment *)
joinSeparator(index, joined_path, sep) ==
    IF index = 0 \/ endswith(joined_path, _SEPARATORS) THEN <<>> ELSE <<sep>>

RECURSIVE joinFold(_, _, _, _)
joinFold(joined_path, index, stripped_paths, sep) ==
    IF stripped_paths = <<>>
    THEN joined_path
    ELSE joinFold(joined_path \o joinSeparator(index, joined_path, sep)
                              \o Head(stripped_paths),
                  index + 1, Tail(stripped_paths), sep)

(* a later fragment that starts with a separator discards what was joined  *)
(* before it, instead of being appended without its leading separators     *)
RECURSIVE joinResettingFold(_, _, _)
joinResettingFold(joined_path, strung_paths, sep) ==
    IF strung_paths = <<>> THEN joined_path
    ELSE LET path == Head(strung_paths)
         IN  IF joined_path = <<>> THEN
                 joinResettingFold(path, Tail(strung_paths), sep)
             ELSE IF startswith(path, _SEPARATORS) THEN
                 joinResettingFold(strip(path, "left"), Tail(strung_paths),
                                   sep)
             ELSE joinResettingFold(
                      joined_path \o joinSeparator(1, joined_path, sep)
                                  \o path,
                      Tail(strung_paths), sep)

joinResetting(selfpath, paths, sep) ==
    joinResettingFold(<<>>,
        SelectSeq(IF selfpath # <<>> THEN <<selfpath>> \o paths ELSE paths,
                  LAMBDA p : p # <<>>),
        sep)

join(selfpath, paths, sep) ==
    LET all_paths == IF selfpath # <<>> THEN <<selfpath>> \o paths ELSE paths
        strung_paths == SelectSeq(all_paths, LAMBDA p : p # <<>>)
        stripped_paths ==
            [i \in 1..Len(strung_paths) |->
                IF i > 1 /\ startswith(strung_paths[i], _SEPARATORS)
                THEN strip(strung_paths[i], "left")
                ELSE strung_paths[i]]
    IN  joinFold(<<>>, 0, stripped_paths, sep)

(* the separator is put in front whatever the path starts with *)
_plantUnchecked(path, sep) == <<sep>> \o path

(* Path._plant *)
_plant(path, sep) ==
    IF startswith(path, {sep}) THEN path ELSE join(<<sep>>, <<path>>, sep)

(* re.sub('[\\/]+', separator, path): every run of separators of either    *)
(* style becomes one separator of the instance (for DOS the replacement    *)
(* is written doubled, which the regular expression engine reads as one    *)
(* escaped backslash)                                                      *)
RECURSIVE uniform(_, _)
uniform(path, sep) ==
    IF path = <<>> THEN <<>>
    ELSE IF Head(path) \in _SEPARATORS
         THEN <<sep>> \o uniform(lstrip(path, _SEPARATORS), sep)
         ELSE <<Head(path)>> \o uniform(Tail(path), sep)

(* Path.split; maximum is -1 for None (every separator) or 1.  The path is *)
(* stripped and normalised with collapse=False before it is split.         *)
split(path, sep, maximum) ==
    LET side == IF maximum = -1 THEN "both" ELSE "right"
        padded(pieces) ==
            IF maximum = 1 /\ Len(pieces) = 1 THEN <<<<>>>> \o pieces
            ELSE pieces
        cut(normalised) ==
            padded(IF maximum = -1 THEN rsplitAll(normalised, sep)
                   ELSE rsplitOnce(normalised, sep))
    IN  cut(uniform(strip(path, side), sep))

(* the loop of normalise over the segments, had '..' been kept when        *)
(* resolve is off                                                          *)
RECURSIVE filterKeepingParents(_, _, _)
filterKeepingParents(segments, filtered_segments, resolve) ==
    IF segments = <<>> THEN filtered_segments
    ELSE LET segment == Head(segments)
         IN  IF segment = curdir
             THEN filterKeepingParents(Tail(segments), filtered_segments,
                                       resolve)
             ELSE IF segment = pardir /\ resolve
             THEN filterKeepingParents(Tail(segments),
                      pop(filtered_segments, -1, <<>>).rest, resolve)
             ELSE filterKeepingParents(Tail(segments),
                      Append(filtered_segments, segment), resolve)

(* the loop of normalise over the segments: '.' and '..' are never kept,   *)
(* and '..' pops the last kept segment when resolve is on                  *)
RECURSIVE filterSegments(_, _, _)
filterSegments(segments, filtered_segments, resolve) ==
    IF segments = <<>> THEN filtered_segments
    ELSE LET segment == Head(segments)
         IN  IF segment \in {curdir, pardir}
             THEN IF resolve /\ segment = pardir
                  THEN filterSegments(Tail(segments),
                           pop(filtered_segments, -1, <<>>).rest, resolve)
                  ELSE filterSegments(Tail(segments), filtered_segments,
                                      resolve)
             ELSE filterSegments(Tail(segments),
                                 Append(filtered_segments, segment), resolve)

(* Path.normalise *)
normalise(path, sep, collapse, resolve, absolute) ==
    LET \* the first and the last segment are taken out, given back the
        \* separator they begin or end with, and joined with the rest
        rebuilt(segments, filtered_segments) ==
            LET first == pop(segments, 0, <<>>)
                first_filtered == pop(filtered_segments, 0, <<>>)
                last == pop(first.rest, -1, <<>>)
                last_filtered == pop(first_filtered.rest, -1, <<>>)
                first_filtered_segment ==
                    IF startswith(first.got, _SEPARATORS)
                    THEN <<sep>> \o first_filtered.got
                    ELSE first_filtered.got
                last_filtered_segment ==
                    IF endswith(last.got, _SEPARATORS)
                    THEN last_filtered.got \o <<sep>>
                    ELSE last_filtered.got
            IN  join(first_filtered_segment,
                     Append(last_filtered.rest, last_filtered_segment),
                     sep)
        collapsed(segments) ==
            rebuilt(segments, filterSegments(segments, <<>>, resolve))
        planted(normal_path) ==
            IF absolute THEN _plant(normal_path, sep) ELSE normal_path
    IN  planted(IF collapse
                     /\ (Len(path) > 1 \/ path \notin {<<"/">>, <<"\\">>})
                THEN collapsed(split(path, sep, -1))
                ELSE uniform(path, sep))

-----------------------------------------------------------------------------
(* Values *)

None == [kind |-> "None"]
Str(s) == [kind |-> "str", path |-> s]
PathInstance(s) == [kind |-> "Path", path |-> s]
Raised(e) == [kind |-> "error", error |-> e]

(* the names of a path: its pieces between the given separator characters *)
RECURSIVE NamesBy(_, _)
NamesBy(path, seps) ==
    IF path = <<>> THEN <<>>
    ELSE IF Head(path) \in seps THEN NamesBy(Tail(path), seps)
    ELSE LET n == CHOOSE n \in 1..Len(path) :
                    /\ \A i \in 1..n : path[i] \notin seps
                    /\ (n = Len(path) \/ path[n + 1] \in seps)
         IN  <<SubSeq(path, 1, n)>>
                 \o NamesBy(SubSeq(path, n + 1, Len(path)), seps)

-----------------------------------------------------------------------------
(* The host filesystem.  fs maps the absolute path of every existing       *)
(* entry, a sequence of names, to the entry; <<>> is the filesystem root.  *)

Dir == [kind |-> "dir"]
RegularFile(content, mtime) ==
    [kind |-> "file", content |-> content, mtime |-> mtime]

NoFiles == (<<>> :> Dir)

(* the separators of the host: '/' on POSIX, both on NT *)
osSeparators(isPosix) == IF isPosix THEN {"/"} ELSE _SEPARATORS

(* an NT path that starts with a drive, as 'c:' *)
hasDrive(path, isPosix) == ~isPosix /\ Len(path) >= 2 /\ path[2] = ":"

(* where the host looks a path string up: at its names from the root of    *)
(* the filesystem when it is absolute, from the working directory when it  *)
(* is relative (on NT a drive is followed by an absolute or a relative     *)
(* path); the empty string names nothing                                   *)
osLocate(path, wd, isPosix) ==
    LET rest == IF hasDrive(path, isPosix)
                THEN SubSeq(path, 3, Len(path)) ELSE path
        names == NamesBy(rest, osSeparators(isPosix))
    IN  IF startswith(rest, osSeparators(isPosix)) THEN names
        ELSE wd \o names

(* os.path.exists, os.path.isdir, os.path.isfile *)
exists(path, fsys, wd, isPosix) ==
    path # <<>> /\ osLocate(path, wd, isPosix) \in DOMAIN fsys

isdir(path, fsys, wd, isPosix) ==
    /\ exists(path, fsys, wd, isPosix)
    /\ fsys[osLocate(path, wd, isPosix)].kind = "dir"

isfile(path, fsys, wd, isPosix) ==
    /\ exists(path, fsys, wd, isPosix)
    /\ fsys[osLocate(path, wd, isPosix)].kind = "file"

(* os.path.realpath of os.curdir and of os.sep *)
RECURSIVE osString(_, _)
osString(names, isPosix) ==
    IF names = <<>> THEN <<>>
    ELSE <<ossep(isPosix)>> \o Head(names) \o osString(Tail(names), isPosix)

realpath(reference, wd, isPosix) ==
    LET drive == IF isPosix THEN <<>> ELSE <<"c", ":">>
        at == IF reference = curdir THEN wd ELSE <<>>
    IN  IF at = <<>> THEN drive \o <<ossep(isPosix)>>
        ELSE drive \o osString(at, isPosix)

-----------------------------------------------------------------------------
(* File.__init__(path, root, match=False).  path is a string or a File,    *)
(* root is None, a string or a Path instance.                              *)

FileInit(path, rootArg, wd, isPosix) ==
    LET rooted == rootArg.kind = "Path"
                    \/ (rootArg.kind = "str" /\ rootArg.path # <<>>)
        \* path.startswith(...) of lines 94-95 needs a string
        relative == startswith(path.path, {"."})
                        \/ ~startswith(path.path, _SEPARATORS)
        given == IF ~rooted /\ relative THEN lstrip(path.path, {"."})
                 ELSE path.path
        rsep == ossep(isPosix)
        full(root_, logical) ==
            normalise(join(root_, <<logical>>, rsep), rsep, TRUE, TRUE, FALSE)
        instance(root_, path_instance, path_directory, path_name) ==
            LET fixed_directory == IF path_directory # <<>>
                                   THEN path_directory ELSE <<"/">>
            IN  [kind |-> "File", root |-> root_, name |-> path_name,
                 path |-> path_instance, parent_path |-> fixed_directory,
                 full_path |-> full(root_, path_instance),
                 full_parent_path |-> full(root_, fixed_directory)]
        halved(root_, path_instance, halves) ==
            instance(root_, path_instance, halves[1], halves[2])
        named(root_, path_instance) ==
            halved(root_, path_instance, split(path_instance, "/", 1))
    IN  IF ~rooted /\ path.kind = "File" THEN Raised("AttributeError")
        ELSE named(IF rooted THEN rootArg.path
                   ELSE realpath(IF relative THEN curdir
                                 ELSE <<ossep(isPosix)>>, wd, isPosix),
                   normalise(strip(given, "both"), "/", TRUE, TRUE, TRUE))

(* File._existence, File._directory, File._file *)
_existence(self, fsys, wd, isPosix) == exists(self.full_path, fsys, wd, isPosix)
_directory(self, fsys, wd, isPosix) == isdir(self.full_path, fsys, wd, isPosix)
_file(self, fsys, wd, isPosix) == isfile(self.full_path, fsys, wd, isPosix)

(* File._instance: a File of the same root *)
_instance(self, path, wd, isPosix) ==
    FileInit(Str(path), PathInstance(self.root), wd, isPosix)

(* File.parent(instance=False, full=False) *)
parent(self) == self.parent_path

(* File._bearer(instance=False, full=False) *)
_bearer(self, fsys, wd, isPosix) ==
    IF _directory(self, fsys, wd, isPosix) THEN self.path ELSE parent(self)

(* File._director(sibling, instance=False, full=False): the logical path   *)
(* of the directory to descend from, or None                               *)
_director(self, sibling, fsys, wd, isPosix) ==
    LET is_directory == _directory(self, fsys, wd, isPosix)
    IN  IF sibling /\ (is_directory \/ _file(self, fsys, wd, isPosix))
        THEN Str(parent(self))
        ELSE IF ~sibling /\ is_directory
        THEN Str(_bearer(self, fsys, wd, isPosix))
        ELSE None

(* File._descendant, behind File.child and File.sibling *)
_descendant(self, path, sibling, instance, full, fsys, wd, isPosix) ==
    LET rsep == ossep(isPosix)
        returning(child) ==
            IF instance THEN _instance(self, child, wd, isPosix)
            ELSE IF full
            THEN Str(normalise(join(self.root, <<child>>, rsep),
                               rsep, TRUE, TRUE, FALSE))
            ELSE Str(child)
        \* a falsy parent (None) returns None
        descended(parent_) ==
            IF parent_ = None THEN None
            ELSE returning(join(parent_.path, <<path>>, "/"))
    IN  descended(_director(self, sibling, fsys, wd, isPosix))

-----------------------------------------------------------------------------
(* Directory listings *)

(* os.listdir of the directory at a location: the names of its entries *)
listdir(at, fsys) ==
    {q[Len(q)] : q \in {q \in DOMAIN fsys :
                          Len(q) = Len(at) + 1 /\ SubSeq(q, 1, Len(at)) = at}}

(* the code point of a character *)
ord(ch) ==
    CASE ch = "." -> 46 [] ch = "/" -> 47 [] ch = "0" -> 48 [] ch = "1" -> 49
      [] ch = "2" -> 50 [] ch = ":" -> 58 [] ch = "M" -> 77
      [] ch = "\\" -> 92 [] ch = "_" -> 95
      [] ch = "a" -> 97 [] ch = "b" -> 98 [] ch = "c" -> 99
      [] ch = "d" -> 100 [] ch = "e" -> 101 [] ch = "m" -> 109
      [] ch = "n" -> 110
      [] ch = "r" -> 114 [] ch = "s" -> 115 [] ch = "t" -> 116
      [] ch = "u" -> 117 [] OTHER -> 122

(* s < t for strings *)
RECURSIVE strLess(_, _)
strLess(s, t) ==
    IF t = <<>> THEN FALSE
    ELSE IF s = <<>> THEN TRUE
    ELSE IF Head(s) = Head(t) THEN strLess(Tail(s), Tail(t))
    ELSE ord(Head(s)) < ord(Head(t))

(* list.sort() of a set of names *)
RECURSIVE sorted(_)
sorted(names) ==
    IF names = {} THEN <<>>
    ELSE LET least == CHOOSE n \in names :
                          \A m \in names \ {n} : strLess(n, m)
         IN  <<least>> \o sorted(names \ {least})

(* the sum of the sizes of the files at a set of locations *)
RECURSIVE sizeSum(_, _)
sizeSum(ats, fsys) ==
    IF ats = {} THEN 0
    ELSE LET at == CHOOSE at \in ats : TRUE
         IN  Len(fsys[at].content) + sizeSum(ats \ {at}, fsys)

(* os.walk(os.curdir) from the working directory wd: the locations of the  *)
(* directories visited, wd itself and, below it, every directory           *)
walked(wd, recurse, fsys) ==
    {q \in DOMAIN fsys :
        /\ fsys[q].kind = "dir"
        /\ Len(q) >= Len(wd) /\ SubSeq(q, 1, Len(wd)) = wd
        /\ recurse \/ q = wd}

(* File._size(recurse, limit=None): the walk runs inside                   *)
(* utilities.directory(self.full_path), so every file_path is looked up    *)
(* from the directory that is being measured                               *)
_size(self, recurse, fsys, wd, isPosix) ==
    LET rsep == ossep(isPosix)
        \* os.path.getsize of every file_path, looked up from here
        summed(file_paths, here) ==
            IF \E file_path \in file_paths :
                   ~isfile(file_path, fsys, here, isPosix)
                       /\ ~isdir(file_path, fsys, here, isPosix)
            THEN Raised("FileNotFoundError")
            ELSE [kind |-> "int",
                  val |-> sizeSum({q \in {osLocate(file_path, here, isPosix) :
                                            file_path \in file_paths} :
                                     fsys[q].kind = "file"}, fsys)]
        \* (path, file) of every file the walk lists
        listed(here) == {q \in DOMAIN fsys :
                           /\ fsys[q].kind = "file"
                           /\ SubSeq(q, 1, Len(q) - 1)
                                 \in walked(here, recurse, fsys)}
        walk_path(q, here) ==
            curdir \o osString(SubSeq(q, Len(here) + 1, Len(q) - 1), isPosix)
        measured(here) ==
            summed({normalise(join(self.full_path,
                                   <<walk_path(q, here), q[Len(q)]>>, rsep),
                              rsep, TRUE, TRUE, FALSE) : q \in listed(here)},
                   here)
    IN  IF ~_existence(self, fsys, wd, isPosix) THEN None
        ELSE IF _directory(self, fsys, wd, isPosix)
        THEN measured(osLocate(self.full_path, wd, isPosix))
        ELSE [kind |-> "int",
              val |-> Len(fsys[osLocate(self.full_path, wd, isPosix)].content)]

-----------------------------------------------------------------------------
(* filecmp *)

Bool(v) == [kind |-> "bool", val |-> v]

(* the Python expression 'value is truth' for a boolean truth: identity,   *)
(* which only a boolean of the same value has                              *)
is_(value, truth) == value.kind = "bool" /\ value.val = truth

(* filecmp._sig: (type, size, mtime) *)
_sig(entry) ==
    IF entry.kind = "file"
    THEN <<"file", Len(entry.content), entry.mtime>>
    ELSE <<"dir", 0, 0>>

(* filecmp.cmp(f1, f2, shallow) of two existing entries *)
cmp(e1, e2, shallow) ==
    IF e1.kind # "file" \/ e2.kind # "file" THEN FALSE
    ELSE IF shallow /\ _sig(e1) = _sig(e2) THEN TRUE
    ELSE IF Len(e1.content) # Len(e2.content) THEN FALSE
    ELSE e1.content = e2.content

(* filecmp.cmpfiles(a, b, common, shallow): the tuple (same, diff, funny) *)
cmpfiles(left, right, common, shallow, fsys) ==
    [kind |-> "tuple",
     same |-> {n \in common :
                 cmp(fsys[Append(left, n)], fsys[Append(right, n)], shallow)},
     diff |-> {n \in common :
                 ~cmp(fsys[Append(left, n)], fsys[Append(right, n)], shallow)},
     funny |-> {}]

(* filecmp.dircmp(left, right) of two directories, given by location *)
dircmp(left, right, fsys) ==
    LET left_list == listdir(left, fsys)
        right_list == listdir(right, fsys)
        common == left_list \cap right_list
        kindOf(at, n) == fsys[Append(at, n)].kind
        common_dirs == {n \in common : kindOf(left, n) = "dir"
                                          /\ kindOf(right, n) = "dir"}
        common_files == {n \in common : kindOf(left, n) = "file"
                                           /\ kindOf(right, n) = "file"}
    IN  [left |-> left, right |-> right,
         left_only |-> left_list \ right_list,
         right_only |-> right_list \ left_list,
         common_dirs |-> common_dirs,
         common_files |-> common_files,
         common_funny |-> common \ (common_dirs \cup common_files),
         diff_files |-> cmpfiles(left, right, common_files, TRUE, fsys).diff]

-----------------------------------------------------------------------------
(* File.compare *)

(* File._compare_equality_directory; subdirs are visited in the sorted     *)
(* order in which dircmp builds them                                       *)
RECURSIVE _compare_equality_directory(_, _, _, _, _)
RECURSIVE _compare_subdirectories(_, _, _, _, _, _, _)

_compare_subdirectories(result, comparator, subdirs, shallow, recursive, inverse, fsys) ==
    IF subdirs = <<>> THEN result
    ELSE LET truth == ~inverse
             sub == dircmp(Append(comparator.left, Head(subdirs)),
                           Append(comparator.right, Head(subdirs)), fsys)
             sub_result == _compare_equality_directory(sub, shallow,
                                                       recursive, inverse,
                                                       fsys)
         IN  IF (sub_result /\ ~truth) \/ (~sub_result /\ truth)
             THEN sub_result
             ELSE _compare_subdirectories(sub_result, comparator,
                                          Tail(subdirs), shallow, recursive,
                                          inverse, fsys)

_compare_equality_directory(comparator, shallow, recursive, inverse, fsys) ==
    LET truth == ~inverse
        clean == /\ comparator.diff_files = {}
                 /\ comparator.left_only = {}
                 /\ comparator.right_only = {}
        first == is_(Bool(clean), truth)
        result ==
            IF first
            THEN IF shallow THEN comparator.common_funny = {}
                 ELSE is_(cmpfiles(comparator.left, comparator.right,
                                   comparator.common_files, FALSE, fsys),
                          truth)
            ELSE first
    IN  IF recursive /\ ((~result /\ ~truth) \/ (result /\ truth))
        THEN _compare_subdirectories(result, comparator,
                                     sorted(comparator.common_dirs),
                                     shallow, recursive, inverse, fsys)
        ELSE result

(* File._compare_equality(other, shallow, recurse, inverse) *)
_compare_equality(self, others, shallow, recurse, inverse, fsys, wd, isPosix) ==
    IF _existence(self, fsys, wd, isPosix)
            /\ _existence(others, fsys, wd, isPosix)
    THEN LET self_is_directory == _directory(self, fsys, wd, isPosix)
             other_is_directory == _directory(others, fsys, wd, isPosix)
             here == osLocate(self.full_path, wd, isPosix)
             there == osLocate(others.full_path, wd, isPosix)
         IN  IF self_is_directory /\ other_is_directory
             THEN _compare_equality_directory(dircmp(here, there, fsys),
                                              shallow, recurse, inverse, fsys)
             ELSE IF ~self_is_directory /\ ~other_is_directory
             THEN is_(Bool(cmp(fsys[here], fsys[there], shallow)), ~inverse)
             ELSE FALSE
    ELSE TRUE

(* File._compare_sameness *)
_compare_sameness(self, others) == self.full_path = others.full_path

(* File._compare_likeness *)
_compare_likeness(self_likeness, other_likeness) ==
    IF self_likeness /\ ~other_likeness THEN 1
    ELSE IF ~self_likeness /\ other_likeness THEN -1
    ELSE 0

(* File._compare_lengths(other, count, **kwargs), called with the          *)
(* positional arguments args after self: other is a required positional    *)
(* parameter, and properties() has no parameter called length              *)
_compare_lengths(self, args, count, size_recurse, fsys, wd, isPosix) ==
    LET ordered(self_length, other_length) ==
            IF self_length.kind = "error" THEN self_length
            ELSE IF other_length.kind = "error" THEN other_length
            ELSE IF self_length.val > other_length.val
            THEN [kind |-> "int", val |-> 1]
            ELSE IF self_length.val < other_length.val
            THEN [kind |-> "int", val |-> -1]
            ELSE [kind |-> "int", val |-> 0]
        compared(others, self_exists, existence_comparison,
                 direction_comparison) ==
            IF _compare_sameness(self, others)
            THEN [kind |-> "int", val |-> 0]
            ELSE IF existence_comparison # 0
            THEN [kind |-> "int", val |-> existence_comparison]
            ELSE IF ~self_exists THEN [kind |-> "int", val |-> 0]
            ELSE IF direction_comparison # 0
            THEN [kind |-> "int", val |-> direction_comparison]
            ELSE IF count THEN Raised("TypeError")
            ELSE ordered(_size(self, size_recurse, fsys, wd, isPosix),
                         _size(others, size_recurse, fsys, wd, isPosix))
        against(others) ==
            compared(others,
                     _existence(self, fsys, wd, isPosix),
                     _compare_likeness(_existence(self, fsys, wd, isPosix),
                                       _existence(others, fsys, wd, isPosix)),
                     _compare_likeness(_directory(self, fsys, wd, isPosix),
                                       _directory(others, fsys, wd, isPosix)))
    IN  IF Len(args) = 0 THEN Raised("TypeError") ELSE against(args[1])

(* File._compare_sizes(size_recurse=True, **kwargs), called with the       *)
(* positional arguments args after self: the first of them is bound to     *)
(* size_recurse, and none is handed on to _compare_lengths                 *)
_compare_sizes(self, args, fsys, wd, isPosix) ==
    _compare_lengths(self, <<>>, FALSE,
                     IF Len(args) > 0 THEN args[1] ELSE TRUE,
                     fsys, wd, isPosix)

(* File._compare_counts(count_recurse=True, count_separate=False,          *)
(* **kwargs), called with the positional arguments args after self         *)
_compare_counts(self, args, fsys, wd, isPosix) ==
    _compare_lengths(self, <<>>, TRUE, TRUE, fsys, wd, isPosix)

(* File.compare(other, method, **kwargs) *)
compare(self, others, method, kwargs, fsys, wd, isPosix) ==
    IF method = "equality"
    THEN Bool(_compare_equality(self, others, kwargs.shallow, kwargs.recurse,
                                kwargs.inverse, fsys, wd, isPosix))
    ELSE IF method = "sizes"
    THEN _compare_sizes(self, <<others>>, fsys, wd, isPosix)
    ELSE _compare_counts(self, <<others>>, fsys, wd, isPosix)

(* the keyword defaults of _compare_equality *)
EqualityDefaults == [shallow |-> TRUE, recurse |-> TRUE, inverse |-> FALSE]

(* File.__eq__, __ne__, __lt__, __gt__, __le__, __ge__ *)
operator(op, self, others, fsys, wd, isPosix) ==
    LET ordering(sizes) ==
            IF sizes.kind = "error" THEN sizes
            ELSE IF op = "lt" THEN Bool(sizes.val = -1)
            ELSE IF op = "gt" THEN Bool(sizes.val = 1)
            ELSE IF op = "le" THEN Bool(sizes.val \in {-1, 0})
            ELSE Bool(sizes.val \in {0, 1})
    IN  IF op = "eq"
        THEN compare(self, others, "equality", EqualityDefaults, fsys, wd,
                     isPosix)
        ELSE IF op = "ne"
        THEN compare(self, others, "equality",
                     [EqualityDefaults EXCEPT !.inverse = TRUE], fsys, wd,
                     isPosix)
        ELSE ordering(compare(self, others, "sizes", EqualityDefaults, fsys,
                              wd, isPosix))

-----------------------------------------------------------------------------
(* Walks and listings *)

(* os.scandir: the names of a directory, in the order the host lists them *)
scan(at, fsys, order) ==
    LET reversed(s) == [i \in 1..Len(s) |-> s[Len(s) + 1 - i]]
    IN  IF order = "ascending" THEN sorted(listdir(at, fsys))
        ELSE reversed(sorted(listdir(at, fsys)))

(* os.walk(top), top down: one (top, directories, files) for every         *)
(* directory visited, a directory before the directories it holds          *)
RECURSIVE walk(_, _, _), walkInto(_, _, _, _)
walk(top, fsys, order) ==
    LET isDirectory(n) == fsys[Append(top, n)].kind = "dir"
        isRegular(n) == fsys[Append(top, n)].kind = "file"
        level(names) ==
            [top |-> top, dirs |-> SelectSeq(names, isDirectory),
             nondirs |-> SelectSeq(names, isRegular)]
        visited(here) == <<here>> \o walkInto(top, here.dirs, fsys, order)
    IN  IF top \notin DOMAIN fsys \/ fsys[top].kind # "dir" THEN <<>>
        ELSE visited(level(scan(top, fsys, order)))

walkInto(top, dirs, fsys, order) ==
    IF dirs = <<>> THEN <<>>
    ELSE walk(Append(top, Head(dirs)), fsys, order)
             \o walkInto(top, Tail(dirs), fsys, order)

(* the keyword defaults of File._descendants; 0 stands for None *)
DescendantsDefaults ==
    [recursive |-> FALSE, separate |-> FALSE, directories |-> FALSE,
     files |-> FALSE, instances |-> FALSE, limit |-> 0, offset |-> 0]

(* the loop with an offset that skips one iteration less *)
RECURSIVE _descendants_loopLate(_, _, _, _, _)
_descendants_loopLate(count, iterations, offset, offset_limit, recursive) ==
    IF count >= iterations THEN <<>>
    ELSE IF offset # 0 /\ offset > count + 1
    THEN _descendants_loopLate(count + 1, iterations, offset, offset_limit,
                               recursive)
    ELSE IF offset_limit # 0 /\ offset_limit < count + 1 THEN <<>>
    ELSE IF ~recursive THEN <<count + 1>>
    ELSE <<count + 1>>
             \o _descendants_loopLate(count + 1, iterations, offset,
                                      offset_limit, recursive)

(* the loop of File._descendants over the iterations of os.walk: the       *)
(* numbers of the iterations that yield a record, count iterations done    *)
RECURSIVE _descendants_loop(_, _, _, _, _)
_descendants_loop(count, iterations, offset, offset_limit, recursive) ==
    IF count >= iterations THEN <<>>
    ELSE IF offset # 0 /\ offset >= count + 1
    THEN _descendants_loop(count + 1, iterations, offset, offset_limit,
                           recursive)
    ELSE IF offset_limit # 0 /\ offset_limit < count + 1 THEN <<>>
    ELSE IF ~recursive THEN <<count + 1>>
    ELSE <<count + 1>>
             \o _descendants_loop(count + 1, iterations, offset,
                                  offset_limit, recursive)

(* File._descendants_milter of the names of one level: the names, or with  *)
(* instances=True a File for each name                                     *)
_descendants_milter(root_file, relative_root, names, instances, wd, isPosix) ==
    [i \in 1..Len(names) |->
        IF instances
        THEN _instance(root_file,
                       join(root_file.path,
                            <<join(relative_root, <<names[i]>>, "/")>>, "/"),
                       wd, isPosix)
        ELSE names[i]]

(* File._descendants(siblings=False, **kwargs): the records the generator  *)
(* yields, or what it raises                                               *)
_descendants(self, kwargs, fsys, wd, order, isPosix) ==
    LET offset_limit == IF kwargs.limit # 0 /\ kwargs.offset # 0
                        THEN kwargs.limit + kwargs.offset ELSE kwargs.limit
        just_files == kwargs.files /\ ~kwargs.directories
        just_directories == kwargs.directories /\ ~kwargs.files
        separate == kwargs.separate \/ just_files \/ just_directories
        content(root_file, relative_path, level) ==
            IF separate
            THEN (IF kwargs.directories
                  THEN "directories" :>
                          _descendants_milter(root_file, relative_path,
                                              level.dirs, kwargs.instances,
                                              wd, isPosix)
                  ELSE [k \in {} |-> <<>>])
                 @@ (IF kwargs.files
                     THEN "files" :>
                             _descendants_milter(root_file, relative_path,
                                                 level.nondirs,
                                                 kwargs.instances, wd, isPosix)
                     ELSE [k \in {} |-> <<>>])
            ELSE "content" :>
                    _descendants_milter(root_file, relative_path,
                                        level.dirs \o level.nondirs,
                                        kwargs.instances, wd, isPosix)
        located(root_file, relative_path, level) ==
            ("path" :> relative_path)
                @@ content(root_file, relative_path, level)
        \* list_root, the first of os.walk('.') from the directory here
        yielding(root_file, here, level) ==
            located(root_file,
                    normalise(lstrip(curdir
                                       \o osString(SubSeq(level.top,
                                                          Len(here) + 1,
                                                          Len(level.top)),
                                                   isPosix), {"."}),
                              "/", TRUE, TRUE, FALSE),
                    level)
        yielded(root_file, here, levels, numbers) ==
            [kind |-> "list",
             val |-> [i \in 1..Len(numbers) |->
                         yielding(root_file, here, levels[numbers[i]])]]
        listed(root_file, here, levels) ==
            yielded(root_file, here, levels,
                    _descendants_loop(0, Len(levels), kwargs.offset,
                                      offset_limit, kwargs.recursive))
        entered(root_file, here) ==
            listed(root_file, here, walk(here, fsys, order))
        \* utilities.directory(root_file.full_path)
        directed(root_file) ==
            IF root_file.kind # "File" THEN Raised("AttributeError")
            ELSE IF ~isdir(root_file.full_path, fsys, wd, isPosix)
            THEN Raised("FileNotFoundError")
            ELSE entered(root_file,
                         osLocate(root_file.full_path, wd, isPosix))
    IN  directed(IF _director(self, FALSE, fsys, wd, isPosix) = None
                 THEN None
                 ELSE self)

(* File.children: the descendants of self, not of its parent *)
children(self, kwargs, fsys, wd, order, isPosix) ==
    _descendants(self, kwargs, fsys, wd, order, isPosix)

-----------------------------------------------------------------------------
(* Sizes and counts of a walk *)

(* the inner loop of File._size over the files of one level, from the      *)
(* running size: sizes holds os.path.getsize of every file, -1 for a path  *)
(* that is not there; the answer is the new size, True or what is raised   *)
RECURSIVE _size_files(_, _, _)
_size_files(size, sizes, limit) ==
    IF sizes = <<>> THEN [kind |-> "int", val |-> size]
    ELSE IF Head(sizes) < 0 THEN Raised("FileNotFoundError")
    ELSE IF limit # 0 /\ size + Head(sizes) >= limit THEN Bool(TRUE)
    ELSE _size_files(size + Head(sizes), Tail(sizes), limit)

(* the outer loop of File._size over the levels of the walk *)
RECURSIVE _size_levels(_, _, _, _)
_size_levels(size, levels, recurse, limit) ==
    LET after(inner) ==
            IF inner.kind # "int" \/ ~recurse THEN inner
            ELSE _size_levels(inner.val, Tail(levels), recurse, limit)
    IN  IF levels = <<>> THEN [kind |-> "int", val |-> size]
        ELSE after(_size_files(size, Head(levels), limit))

(* File._size(recurse, limit): the walk in the order of the listing, the   *)
(* running size tested against the limit after every file; 0 stands for    *)
(* no limit                                                                *)
_size_limit(self, recurse, limit, fsys, wd, order, isPosix) ==
    LET rsep == ossep(isPosix)
        \* os.path.getsize(file_path), looked up from the directory here
        getsize(file_path, here) ==
            IF isfile(file_path, fsys, here, isPosix)
            THEN Len(fsys[osLocate(file_path, here, isPosix)].content)
            ELSE IF isdir(file_path, fsys, here, isPosix) THEN 0
            ELSE -1
        file_path(level, here, i) ==
            normalise(join(self.full_path,
                           <<curdir \o osString(SubSeq(level.top,
                                                       Len(here) + 1,
                                                       Len(level.top)),
                                                isPosix),
                             level.nondirs[i]>>, rsep),
                      rsep, TRUE, TRUE, FALSE)
        sizes(level, here) ==
            [i \in 1..Len(level.nondirs) |->
                getsize(file_path(level, here, i), here)]
        measured(levels, here) ==
            _size_levels(0, [n \in 1..Len(levels) |-> sizes(levels[n], here)],
                         recurse, limit)
        entered(here) == measured(walk(here, fsys, order), here)
    IN  IF ~_existence(self, fsys, wd, isPosix) THEN None
        ELSE IF _directory(self, fsys, wd, isPosix)
        THEN entered(osLocate(self.full_path, wd, isPosix))
        ELSE [kind |-> "int",
              val |-> Len(fsys[osLocate(self.full_path, wd, isPosix)].content)]

(* the loop of File._count over the levels of the walk, from the counts so *)
(* far: the counts and whether the limit was reached                       *)
RECURSIVE _count_levels(_, _, _, _, _, _)
_count_levels(counts, levels, recurse, limit, combined_limitation, limit_files) ==
    LET limited(counted) ==
            IF combined_limitation THEN counted.combined_count
            ELSE IF limit_files THEN counted.file_count
            ELSE counted.directory_count
        tested(counted) ==
            [counted EXCEPT !.reached_limit =
                                limit # 0 /\ limited(counted) >= limit]
        after(counted) ==
            IF ~recurse \/ counted.reached_limit THEN counted
            ELSE _count_levels(counted, Tail(levels), recurse, limit,
                               combined_limitation, limit_files)
        counting(level) ==
            [directory_count |-> counts.directory_count + Len(level.dirs),
             file_count |-> counts.file_count + Len(level.nondirs),
             combined_count |-> counts.combined_count + Len(level.dirs)
                                    + Len(level.nondirs),
             reached_limit |-> counts.reached_limit]
    IN  IF levels = <<>> THEN counts
        ELSE after(tested(counting(Head(levels))))

(* File._count with the limit always tested against the combined count *)
_countCombined(self, recurse, separate, limit, limit_files, limit_directories, fsys, wd, order, isPosix) ==
    LET count(counted) ==
            IF counted.reached_limit THEN Bool(TRUE)
            ELSE IF separate
            THEN [kind |-> "dict", directories |-> counted.directory_count,
                  files |-> counted.file_count]
            ELSE [kind |-> "int", val |-> counted.combined_count]
    IN  IF ~_existence(self, fsys, wd, isPosix) THEN None
        ELSE IF _directory(self, fsys, wd, isPosix)
        THEN count(_count_levels([directory_count |-> 0, file_count |-> 0,
                                  combined_count |-> 0,
                                  reached_limit |-> FALSE],
                                 walk(osLocate(self.full_path, wd, isPosix),
                                      fsys, order),
                                 recurse, limit, TRUE, limit_files))
        ELSE [kind |-> "int", val |-> 1]

(* File._count(recurse, separate, limit, limit_files, limit_directories):  *)
(* os.walk(self.full_path) from the working directory                      *)
_count(self, recurse, separate, limit, limit_files, limit_directories, fsys, wd, order, isPosix) ==
    LET both_limited == limit_files /\ limit_directories
        both_not_limited == ~limit_files /\ ~limit_directories
        combined_limitation == both_limited \/ both_not_limited
        count(counted) ==
            IF counted.reached_limit THEN Bool(TRUE)
            ELSE IF separate
            THEN [kind |-> "dict", directories |-> counted.directory_count,
                  files |-> counted.file_count]
            ELSE [kind |-> "int", val |-> counted.combined_count]
    IN  IF ~_existence(self, fsys, wd, isPosix) THEN None
        ELSE IF _directory(self, fsys, wd, isPosix)
        THEN count(_count_levels([directory_count |-> 0, file_count |-> 0,
                                  combined_count |-> 0,
                                  reached_limit |-> FALSE],
                                 walk(osLocate(self.full_path, wd, isPosix),
                                      fsys, order),
                                 recurse, limit, combined_limitation,
                                 limit_files))
        ELSE [kind |-> "int", val |-> 1]

(* File._count_lines(limit): only a file has lines, and its lines are read *)
(* from a file object that the with statement of read has closed           *)
_count_lines(self, limit, fsys, wd, isPosix) ==
    IF _file(self, fsys, wd, isPosix) THEN Raised("ValueError") ELSE None

(* File._empty: not self._count_lines(limit=1) of a directory, and         *)
(* self._size == 0 of a file                                               *)
_empty(self, fsys, wd, isPosix) ==
    LET zero(size) == IF size.kind = "error" THEN size ELSE Bool(size.val = 0)
        not_(value) ==
            IF value.kind = "error" THEN value
            ELSE IF value.kind = "None" THEN Bool(TRUE)
            ELSE IF value.kind = "bool" THEN Bool(~value.val)
            ELSE Bool(value.val = 0)
    IN  IF _directory(self, fsys, wd, isPosix)
        THEN not_(_count_lines(self, 1, fsys, wd, isPosix))
        ELSE IF _file(self, fsys, wd, isPosix)
        THEN zero(_size(self, TRUE, fsys, wd, isPosix))
        ELSE None

-----------------------------------------------------------------------------
(* Checksums *)

(* zlib.crc32 and hashlib: the digest an algorithm gives of some bytes;    *)
(* digests of different bytes are taken to differ                          *)
digest(algorithm, bytes) ==
    [kind |-> "digest", algorithm |-> algorithm, of |-> bytes]

(* the bytes of a sequence of blocks, one after the other *)
RECURSIVE concatenated(_)
concatenated(brooks) ==
    IF brooks = <<>> THEN <<>>
    ELSE Head(brooks) \o concatenated(Tail(brooks))

(* utilities.checksum(stream, algorithm): one hasher updated with every    *)
(* brook of the stream; what the stream raises while it is read is raised  *)
checksum(stream, algorithm) ==
    IF stream.kind = "error" THEN stream
    ELSE IF stream.closed THEN Raised("ValueError")
    ELSE digest(algorithm, concatenated(stream.val))

(* File.read(generator=True, blocks=True, binary=True): an iterator over   *)
(* the blocks of a file that the with statement has closed                 *)
read(self, fsys, wd, isPosix) ==
    IF ~exists(self.full_path, fsys, wd, isPosix)
    THEN Raised("FileNotFoundError")
    ELSE [kind |-> "stream", closed |-> TRUE,
          val |-> <<fsys[osLocate(self.full_path, wd, isPosix)].content>>]

(* File._checksum_children: child._checksum of every record the listing    *)
(* yields; a record is a dict, which has no _checksum                      *)
_checksum_children(self, algorithm, fsys, wd, order, isPosix) ==
    LET each(records) ==
            IF records.kind = "error" THEN records
            ELSE IF records.val = <<>>
            THEN [kind |-> "stream", closed |-> FALSE, val |-> <<>>]
            ELSE Raised("AttributeError")
    IN  each(children(self,
                      [DescendantsDefaults EXCEPT !.recursive = TRUE,
                                                  !.separate = TRUE,
                                                  !.files = TRUE,
                                                  !.instances = TRUE],
                      fsys, wd, order, isPosix))

(* File._checksum(algorithm) *)
_checksum(self, algorithm, fsys, wd, order, isPosix) ==
    IF _directory(self, fsys, wd, isPosix)
    THEN checksum(_checksum_children(self, algorithm, fsys, wd, order,
                                     isPosix), algorithm)
    ELSE checksum(read(self, fsys, wd, isPosix), algorithm)

-----------------------------------------------------------------------------
(* Changes of the host filesystem.  An operation that may change it gives  *)
(* its value, or what it raises, and the filesystem it leaves.             *)

Outcome(value, fsys) == [value |-> value, fs |-> fsys]

(* the index of the last character of a string that is in a set, or 0 *)
RECURSIVE rfind(_, _)
rfind(s, chars) ==
    IF s = <<>> THEN 0
    ELSE IF s[Len(s)] \in chars THEN Len(s)
    ELSE rfind(SubSeq(s, 1, Len(s) - 1), chars)

(* os.path.splitext: the extension starts at the last dot of the last name *)
(* of the path, unless only dots come before it in that name               *)
splitext(path, isPosix) ==
    LET halves(sep_index, dot_index) ==
            IF dot_index > sep_index
                  /\ \E i \in (sep_index + 1)..(dot_index - 1) : path[i] # "."
            THEN <<SubSeq(path, 1, dot_index - 1),
                   SubSeq(path, dot_index, Len(path))>>
            ELSE <<path, <<>>>>
    IN  halves(rfind(path, osSeparators(isPosix)), rfind(path, {"."}))

(* str(n) of a natural number *)
RECURSIVE str(_)
str(n) ==
    LET digit(d) == <<"0", "1", "2", "3", "4", "5", "6", "7", "8", "9">>[d + 1]
    IN  IF n < 10 THEN <<digit(n)>> ELSE str(n \div 10) \o <<digit(n % 10)>>

(* str.lower *)
lower(s) ==
    [i \in 1..Len(s) |->
        CASE s[i] = "M" -> "m" [] s[i] = "T" -> "t" [] s[i] = "U" -> "u"
          [] OTHER -> s[i]]

(* the entries at and below a location *)
under(at, fsys) ==
    {q \in DOMAIN fsys : Len(q) >= Len(at) /\ SubSeq(q, 1, Len(at)) = at}

(* the filesystem without the entries at and below a location *)
without(at, fsys) == [q \in DOMAIN fsys \ under(at, fsys) |-> fsys[q]]

(* the location of the directory that holds a location *)
holder(at) == SubSeq(at, 1, Len(at) - 1)

(* what the host raises when a path leads through something that is not   *)
(* a directory, or through nothing                                         *)
RECURSIVE blocked(_, _, _)
blocked(at, fsys, isPosix) ==
    IF at = <<>> THEN None
    ELSE IF holder(at) \notin DOMAIN fsys
    THEN (IF blocked(holder(at), fsys, isPosix) = None
          THEN Raised("FileNotFoundError")
          ELSE blocked(holder(at), fsys, isPosix))
    ELSE IF fsys[holder(at)].kind # "dir"
    THEN Raised(IF isPosix THEN "NotADirectoryError"
                ELSE "FileNotFoundError")
    ELSE None

(* the directories os.makedirs makes down to a location *)
RECURSIVE madedirs(_, _)
madedirs(at, fsys) ==
    IF at \in DOMAIN fsys THEN fsys
    ELSE (at :> Dir) @@ madedirs(holder(at), fsys)

(* the first entry on the way to a location that is not a directory *)
RECURSIVE barred(_, _)
barred(at, fsys) ==
    IF at = <<>> THEN FALSE
    ELSE IF at \in DOMAIN fsys THEN fsys[at].kind # "dir"
    ELSE barred(holder(at), fsys)

(* os.makedirs(path) *)
makedirs(path, fsys, wd, isPosix) ==
    LET made(at) ==
            IF path = <<>> THEN Outcome(Raised("FileNotFoundError"), fsys)
            ELSE IF at \in DOMAIN fsys
            THEN Outcome(Raised("FileExistsError"), fsys)
            ELSE IF barred(at, fsys)
            THEN Outcome(Raised(IF isPosix THEN "NotADirectoryError"
                                ELSE "FileNotFoundError"), fsys)
            ELSE Outcome(None, madedirs(at, fsys))
    IN  made(osLocate(path, wd, isPosix))

(* open(path, mode) and the write of some content: mode 'a' writes after   *)
(* what the file holds, mode 'w' in its place                              *)
opened(path, append, content, fsys, wd, isPosix) ==
    LET before(at) ==
            IF at \in DOMAIN fsys /\ append THEN fsys[at].content ELSE <<>>
        written(at) ==
            IF path = <<>> THEN Outcome(Raised("FileNotFoundError"), fsys)
            ELSE IF at \in DOMAIN fsys /\ fsys[at].kind = "dir"
            THEN Outcome(Raised(IF isPosix THEN "IsADirectoryError"
                                ELSE "PermissionError"), fsys)
            ELSE IF blocked(at, fsys, isPosix) # None
            THEN Outcome(blocked(at, fsys, isPosix), fsys)
            ELSE Outcome(None,
                         (at :> RegularFile(before(at) \o content, 1))
                             @@ fsys)
    IN  written(osLocate(path, wd, isPosix))

(* shutil.copy2(src, dst): into a directory under the name of the source   *)
copy2(src, dst, fsys, wd, isPosix) ==
    LET copied(from, to) ==
            IF ~exists(src, fsys, wd, isPosix)
            THEN Outcome(Raised("FileNotFoundError"), fsys)
            ELSE IF from = to THEN Outcome(Raised("SameFileError"), fsys)
            ELSE IF fsys[from].kind = "dir"
            THEN Outcome(Raised(IF isPosix THEN "IsADirectoryError"
                                ELSE "PermissionError"), fsys)
            ELSE IF dst = <<>> THEN Outcome(Raised("FileNotFoundError"), fsys)
            ELSE IF to \in DOMAIN fsys /\ fsys[to].kind = "dir"
            THEN Outcome(Raised(IF isPosix THEN "IsADirectoryError"
                                ELSE "PermissionError"), fsys)
            ELSE IF blocked(to, fsys, isPosix) # None
            THEN Outcome(blocked(to, fsys, isPosix), fsys)
            ELSE Outcome(None, (to :> fsys[from]) @@ fsys)
        into(from, to) ==
            IF to \in DOMAIN fsys /\ fsys[to].kind = "dir" /\ from # <<>>
            THEN copied(from, Append(to, from[Len(from)]))
            ELSE copied(from, to)
    IN  into(osLocate(src, wd, isPosix), osLocate(dst, wd, isPosix))

(* shutil.copytree(src, dst): the destination must not be there *)
copytree(src, dst, fsys, wd, isPosix) ==
    LET transplanted(from, to) ==
            [q \in {to \o SubSeq(p, Len(from) + 1, Len(p)) :
                        p \in under(from, fsys)}
                |-> fsys[from \o SubSeq(q, Len(to) + 1, Len(q))]]
        copied(from, to) ==
            IF ~exists(src, fsys, wd, isPosix)
            THEN Outcome(Raised("FileNotFoundError"), fsys)
            ELSE IF fsys[from].kind # "dir"
            THEN Outcome(Raised("NotADirectoryError"), fsys)
            ELSE IF dst = <<>> THEN Outcome(Raised("FileNotFoundError"), fsys)
            ELSE IF to \in DOMAIN fsys
            THEN Outcome(Raised("FileExistsError"), fsys)
            ELSE IF barred(to, fsys)
            THEN Outcome(Raised(IF isPosix THEN "NotADirectoryError"
                                ELSE "FileNotFoundError"), fsys)
            \* a destination inside a directory of the source is copied
            \* into itself, level after level, until the recursion limit;
            \* of what that leaves only the destination is kept here
            ELSE IF Len(to) > Len(from) + 1
                       /\ SubSeq(to, 1, Len(from)) = from
            THEN Outcome(Raised("RecursionError"), madedirs(to, fsys))
            ELSE Outcome(None,
                         transplanted(from, to) @@ madedirs(holder(to), fsys))
    IN  copied(osLocate(src, wd, isPosix), osLocate(dst, wd, isPosix))

-----------------------------------------------------------------------------
(* Writing, copying and moving *)

(* File.remove: shutil.rmtree of a directory, which the host refuses for   *)
(* its root, and os.remove of a file                                       *)
remove(self, fsys, wd, isPosix) ==
    LET rmtree(at) ==
            IF at = <<>> THEN Outcome(Raised("PermissionError"), fsys)
            ELSE Outcome(None, without(at, fsys))
        os_remove(at) == Outcome(None, without(at, fsys))
    IN  IF ~_existence(self, fsys, wd, isPosix) THEN Outcome(None, fsys)
        ELSE IF _directory(self, fsys, wd, isPosix)
        THEN rmtree(osLocate(self.full_path, wd, isPosix))
        ELSE os_remove(osLocate(self.full_path, wd, isPosix))

(* File._resolution(path, count): the path with _count before the          *)
(* extension of its name                                                   *)
_resolution(path, count, isPosix) ==
    LET rsep == ossep(isPosix)
        proposed(base, halves) ==
            join(base, <<halves[1] \o <<"_">> \o str(count) \o halves[2]>>,
                 rsep)
        named(pieces) == proposed(pieces[1], splitext(pieces[2], isPosix))
    IN  named(split(path, rsep, 1))

(* the count of the first proposed path that does not exist *)
RECURSIVE _resolve_count(_, _, _, _, _)
_resolve_count(path, count, fsys, wd, isPosix) ==
    IF exists(_resolution(path, count, isPosix), fsys, wd, isPosix)
    THEN _resolve_count(path, count + 1, fsys, wd, isPosix)
    ELSE count

(* File._resolve: a sibling named after the first proposed path of         *)
(* self.full_path that does not exist, or self when self does not exist    *)
_resolve(self, fsys, wd, isPosix) ==
    IF _existence(self, fsys, wd, isPosix)
    THEN _descendant(self,
                     split(_resolution(self.full_path,
                                       _resolve_count(self.full_path, 1, fsys,
                                                      wd, isPosix),
                                       isPosix),
                           ossep(isPosix), 1)[2],
                     TRUE, TRUE, FALSE, fsys, wd, isPosix)
    ELSE self

(* the loop of File._uniquify over the names os.listdir gave *)
RECURSIVE _uniquify_files(_, _, _, _, _, _)
_uniquify_files(self, files, directories, fsys, wd, isPosix) ==
    LET halves == splitext(self.name, isPosix)
        removing(file_instance) ==
            IF directories \/ _file(file_instance, fsys, wd, isPosix)
            THEN remove(file_instance, fsys, wd, isPosix)
            ELSE Outcome(None, fsys)
        matching(file_halves) ==
            IF file_halves[1] = halves[1] /\ file_halves[2] # halves[2]
            THEN removing(_instance(self,
                                    join(self.parent_path, <<Head(files)>>,
                                         "/"),
                                    wd, isPosix))
            ELSE Outcome(None, fsys)
        next(outcome) ==
            IF outcome.value # None THEN outcome
            ELSE _uniquify_files(self, Tail(files), directories, outcome.fs,
                                 wd, isPosix)
    IN  IF files = <<>> THEN Outcome(None, fsys)
        ELSE next(matching(splitext(Head(files), isPosix)))

(* File._uniquify(directories) *)
_uniquify(self, directories, fsys, wd, order, isPosix) ==
    IF ~isdir(self.full_parent_path, fsys, wd, isPosix)
    THEN Outcome(Raised(IF exists(self.full_parent_path, fsys, wd, isPosix)
                        THEN "NotADirectoryError"
                        ELSE "FileNotFoundError"), fsys)
    ELSE _uniquify_files(self,
                         scan(osLocate(self.full_parent_path, wd, isPosix),
                              fsys, order),
                         directories, fsys, wd, isPosix)

(* File._preoverwrite: File._uniquify after the removal, for the levels    *)
(* above 1                                                                 *)
_preoverwrite_uniquified(self, level, outcome, wd, order, isPosix) ==
    IF outcome.value # None \/ level <= 1 THEN outcome
    ELSE _uniquify(self, level > 2, outcome.fs, wd, order, isPosix)

(* File._preoverwrite(level): the destination to write to; -1, 0, 1, 2     *)
(* and 3 are the levels                                                     *)
_preoverwrite(self, level, fsys, wd, order, isPosix) ==
    LET destined(outcome) ==
            IF outcome.value # None THEN outcome
            ELSE Outcome(self, outcome.fs)
    IN  IF ~_existence(self, fsys, wd, isPosix) THEN Outcome(self, fsys)
        ELSE IF level > 0
        THEN destined(_preoverwrite_uniquified(self, level,
                                               remove(self, fsys, wd,
                                                      isPosix),
                                               wd, order, isPosix))
        ELSE IF level = 0
        THEN Outcome(_resolve(self, fsys, wd, isPosix), fsys)
        ELSE Outcome(self, fsys)

(* Path.simplify: the characters of the path that ASCII has *)
simplify(path) ==
    LET ascii(ch) == ord(ch) < 128
    IN  SelectSeq(path, ascii)

(* Path._split_extension(full): the path, or with full=False its name,     *)
(* without the extension, and the extension                                *)
_split_extension(path, full, sep, isPosix) ==
    LET based(ancestry, halves) ==
            IF ~full THEN halves
            ELSE IF ancestry # <<>> /\ halves[1] # <<>>
            THEN <<ancestry \o <<sep>> \o halves[1], halves[2]>>
            ELSE IF ancestry # <<>> THEN <<ancestry, halves[2]>>
            ELSE halves
        halved(ancestry, name_) ==
            IF startswith(name_, {"."})
                  /\ Cardinality({i \in 1..Len(name_) : name_[i] = "."}) = 1
            THEN based(ancestry, <<<<>>, name_>>)
            ELSE based(ancestry, splitext(name_, isPosix))
        pieced(pieces) == halved(pieces[1], pieces[2])
    IN  pieced(split(path, sep, 1))

(* Path.extension(identifier): the path with that extension *)
extension(path, identifier, sep, isPosix) ==
    _split_extension(rstrip(path, _SEPARATORS), TRUE, sep, isPosix)[1]
        \o <<".">> \o rstrip(lstrip(identifier, {"."}), {"."})

(* File._prewrite with extend=True: a name without an extension takes the  *)
(* extension of the upload                                                 *)
_prewrite_extended(name_, storage_extension, isPosix) ==
    IF _split_extension(name_, FALSE, ossep(isPosix), isPosix)[2] = <<>>
          /\ Len(storage_extension) > 1
    THEN extension(name_, storage_extension, ossep(isPosix), isPosix)
    ELSE name_

(* File._prewrite(storage, extend=True, allowed): the destination of an    *)
(* upload called storage.filename, or StorageNotAllowed.  The name is that *)
(* of the upload when self is a directory or has no name, and what         *)
(* utilities.salt(4) makes up when the upload has no name either           *)
_prewrite(self, filename, allowed, fsys, wd, isPosix) ==
    LET salt == <<"s", "a", "l", "t">>
        named(name_) == rstrip(IF name_ = <<>> THEN salt ELSE name_, {"."})
    IN  IF lower(lstrip(splitext(filename, isPosix)[2], {"."})) \notin allowed
        THEN Raised("StorageNotAllowed")
        ELSE IF _directory(self, fsys, wd, isPosix) \/ self.name = <<>>
        THEN _descendant(IF _directory(self, fsys, wd, isPosix) THEN self
                         ELSE _instance(self, parent(self), wd, isPosix),
                         _prewrite_extended(
                             named(split(simplify(
                                             normalise(strip(filename, "both"),
                                                       ossep(isPosix), TRUE,
                                                       TRUE, FALSE)),
                                         ossep(isPosix), 1)[2]),
                             splitext(filename, isPosix)[2], isPosix),
                         FALSE, TRUE, FALSE, fsys, wd, isPosix)
        ELSE self

(* File.plant: the directory self is in, made when it is not there by      *)
(* File.write(directory=True) of the parent, which makes the directories   *)
(* of what File._resolve gives when there is something at the parent       *)
plant(self, fsys, wd, order, isPosix) ==
    IF exists(self.full_parent_path, fsys, wd, isPosix)
    THEN Outcome(None, fsys)
    ELSE makedirs(_resolve(_instance(self, parent(self), wd, isPosix), fsys,
                           wd, isPosix).full_path,
                  fsys, wd, isPosix)

(* the return of File.write and File.copy: the destination when it is      *)
(* there, False when it is not                                             *)
returned(destination, outcome, wd, isPosix) ==
    IF outcome.value # None THEN outcome
    ELSE IF _existence(destination, outcome.fs, wd, isPosix)
    THEN Outcome(destination, outcome.fs)
    ELSE Outcome(Bool(FALSE), outcome.fs)

(* File.write: the destination opened, in mode 'a' for overwrite=-1 and    *)
(* for an empty string, and the content written to it; a string needs text *)
(* mode and bytes need mode 'b', which shows after the file was opened     *)
_write_opened(destination, content, overwrite, binary, planted, wd, isPosix) ==
    LET bytes == IF content.kind = "upload" THEN content.stream
                 ELSE content.path
        append == overwrite = -1 \/ (content.kind = "str" /\ bytes = <<>>)
        suited == binary <=> content.kind = "upload"
        mistyped(outcome) ==
            IF outcome.value # None \/ suited THEN outcome
            ELSE Outcome(Raised("TypeError"), outcome.fs)
    IN  IF planted.value # None THEN planted
        ELSE mistyped(opened(destination.full_path, append,
                             IF suited THEN bytes ELSE <<>>,
                             planted.fs, wd, isPosix))

(* File.write: the directory of the destination planted, the destination   *)
(* written, and the destination returned when it is there                  *)
_write_planted(content, overwrite, binary, outcome, wd, order, isPosix) ==
    IF outcome.value.kind # "File" THEN outcome
    ELSE returned(outcome.value,
                  _write_opened(outcome.value, content, overwrite, binary,
                                plant(outcome.value, outcome.fs, wd, order,
                                      isPosix),
                                wd, isPosix),
                  wd, isPosix)

(* File.write: the destination cleared by File._preoverwrite when there is *)
(* something at it                                                         *)
_write_destination(destination, overwrite, fsys, wd, order, isPosix) ==
    IF destination.kind # "File" THEN Outcome(destination, fsys)
    ELSE IF _existence(destination, fsys, wd, isPosix)
    THEN _preoverwrite(destination, overwrite, fsys, wd, order, isPosix)
    ELSE Outcome(destination, fsys)

(* File.write that clears the way before it looks at the upload *)
writeUnchecked(self, content, overwrite, binary, allowed, fsys, wd, order, isPosix) ==
    _write_planted(content, overwrite, binary,
                   _write_destination(IF content.kind = "upload"
                                      THEN _prewrite(self, content.filename,
                                                     allowed, fsys, wd,
                                                     isPosix)
                                      ELSE self,
                                      overwrite,
                                      (IF content.kind = "upload"
                                       THEN _preoverwrite(self, overwrite,
                                                          fsys, wd, order,
                                                          isPosix)
                                       ELSE Outcome(self, fsys)).fs,
                                      wd, order, isPosix),
                   wd, order, isPosix)

(* File.write(content, overwrite, binary, allowed) of a string, or of an   *)
(* upload that has a filename and a stream of bytes                        *)
write(self, content, overwrite, binary, allowed, fsys, wd, order, isPosix) ==
    _write_planted(content, overwrite, binary,
                   _write_destination(IF content.kind = "upload"
                                      THEN _prewrite(self, content.filename,
                                                     allowed, fsys, wd,
                                                     isPosix)
                                      ELSE self,
                                      overwrite, fsys, wd, order, isPosix),
                   wd, order, isPosix)

(* File.copy: shutil.copytree of a directory or shutil.copy2 of a file to  *)
(* the destination File._preoverwrite gave, and the destination returned   *)
(* when it is there                                                        *)
_copy_copied(self, outcome, wd, isPosix) ==
    IF outcome.value.kind # "File" THEN outcome
    ELSE returned(outcome.value,
                  IF _directory(self, outcome.fs, wd, isPosix)
                  THEN copytree(self.full_path, outcome.value.full_path,
                                outcome.fs, wd, isPosix)
                  ELSE copy2(self.full_path, outcome.value.full_path,
                             outcome.fs, wd, isPosix),
                  wd, isPosix)

(* File.copy: the destination cleared after its directory was planted *)
_copy_overwritten(preliminary_destination, overwrite, planted, wd, order, isPosix) ==
    IF planted.value # None THEN planted
    ELSE _preoverwrite(preliminary_destination, overwrite, planted.fs, wd,
                       order, isPosix)

(* File.copy(path, overwrite) *)
copy(self, path, overwrite, fsys, wd, order, isPosix) ==
    _copy_copied(self,
                 _copy_overwritten(_instance(self, path, wd, isPosix),
                                   overwrite,
                                   plant(_instance(self, path, wd, isPosix),
                                         fsys, wd, order, isPosix),
                                   wd, order, isPosix),
                 wd, isPosix)

(* File.move(path, overwrite): the value, the filesystem and the instance  *)
(* after the call; the source is removed and self bound to the copy when   *)
(* the copy gave an instance                                               *)
move(self, path, overwrite, fsys, wd, order, isPosix) ==
    LET replicated(copied_instance, removed) ==
            IF removed.value # None
            THEN [value |-> removed.value, fs |-> removed.fs, self |-> self]
            ELSE [value |-> copied_instance, fs |-> removed.fs,
                  self |-> copied_instance]
        moved(outcome) ==
            IF outcome.value.kind = "File"
            THEN replicated(outcome.value,
                            remove(self, outcome.fs, wd, isPosix))
            ELSE [value |-> outcome.value, fs |-> outcome.fs, self |-> self]
    IN  moved(copy(self, path, overwrite, fsys, wd, order, isPosix))

-----------------------------------------------------------------------------
(* File.__init__(path, root, match=True) *)

(* the part of File.__init__ that match=True adds to the construction of   *)
(* self: the first name os.listdir gives of the parent directory that      *)
(* starts with the name is adopted                                          *)
FileInitMatch(self, fsys, wd, order, isPosix) ==
    LET full_directory == join(self.root, <<self.parent_path>>, ossep(isPosix))
        starting(files) ==
            SelectSeq(files,
                      LAMBDA file : Len(self.name) <= Len(file)
                          /\ SubSeq(file, 1, Len(self.name)) = self.name)
        adopted(file, path_) ==
            [self EXCEPT !.name = file,
                         !.path = path_,
                         !.full_path =
                             normalise(join(self.root, <<path_>>,
                                            ossep(isPosix)),
                                       ossep(isPosix), TRUE, TRUE, FALSE)]
        matched(found) ==
            IF found = <<>> THEN self
            ELSE adopted(Head(found),
                         join(self.parent_path, <<Head(found)>>, "/"))
    IN  IF self.kind # "File" THEN self
        ELSE IF ~isdir(full_directory, fsys, wd, isPosix) THEN self
        ELSE matched(starting(scan(osLocate(full_directory, wd, isPosix),
                                   fsys, order)))

-----------------------------------------------------------------------------
(* utilities.directory: the context manager that changes the working       *)
(* directory                                                                *)

(* os.getcwd *)
getcwd(wd, isPosix) == realpath(curdir, wd, isPosix)

(* os.path.expanduser: a leading ~ is the home directory, which is the     *)
(* root of the filesystem here                                             *)
expanduser(path, isPosix) ==
    IF path # <<>> /\ Head(path) = "~"
          /\ (Len(path) = 1 \/ path[2] \in osSeparators(isPosix))
    THEN realpath(<<ossep(isPosix)>>, <<>>, isPosix)
             \o SubSeq(path, 3, Len(path))
    ELSE path

(* where the host arrives when it follows names from a location: . stays,  *)
(* .. climbs, and POSIX follows a name only out of a directory              *)
RECURSIVE followed(_, _, _, _)
followed(names, at, fsys, isPosix) ==
    LET missing == IF at \in DOMAIN fsys THEN Raised("NotADirectoryError")
                   ELSE Raised("FileNotFoundError")
        here == at \in DOMAIN fsys /\ fsys[at].kind = "dir"
    IN  IF ~here /\ (isPosix \/ names = <<>>) THEN missing
        ELSE IF names = <<>> THEN [kind |-> "location", at |-> at]
        ELSE IF Head(names) = curdir
        THEN followed(Tail(names), at, fsys, isPosix)
        ELSE IF Head(names) = pardir
        THEN followed(Tail(names), IF at = <<>> THEN at ELSE holder(at),
                      fsys, isPosix)
        ELSE followed(Tail(names), Append(at, Head(names)), fsys, isPosix)

(* os.chdir(path): what it raises, and the working directory after it *)
chdir(path, fsys, wd, isPosix) ==
    LET arrived(location) ==
            IF location.kind = "error" THEN [value |-> location, cwd |-> wd]
            ELSE [value |-> None, cwd |-> location.at]
        rest == IF hasDrive(path, isPosix) THEN SubSeq(path, 3, Len(path))
                ELSE path
    IN  IF path = <<>> THEN [value |-> Raised("FileNotFoundError"), cwd |-> wd]
        ELSE arrived(followed(NamesBy(rest, osSeparators(isPosix)),
                              IF startswith(rest, osSeparators(isPosix))
                              THEN <<>> ELSE wd,
                              fsys, isPosix))

(* utilities._drive_reference: a drive letter and a colon *)
_drive_reference(path) ==
    Len(path) = 2 /\ path[1] \in {"a", "b", "c", "d"} /\ path[2] = ":"

(* directory.__init__(destination, make): the scope object *)
directory(destination, make, isPosix) ==
    [destination |-> expanduser(destination, isPosix), make |-> make,
     start |-> None]

(* directory.__enter__ that takes the working directory after the change *)
(* for the start                                                           *)
__enter__Late(self, fsys, wd, isPosix) ==
    LET destination ==
            IF ~isPosix /\ _drive_reference(self.destination)
            THEN self.destination \o <<ossep(isPosix)>>
            ELSE self.destination
        entered(changed, fsys_) ==
            [value |-> changed.value, fs |-> fsys_, cwd |-> changed.cwd,
             self |-> [self EXCEPT !.start = Str(getcwd(changed.cwd, isPosix))]]
        made(outcome) ==
            IF outcome.value # None
            THEN [value |-> outcome.value, fs |-> fsys, cwd |-> wd,
                  self |-> [self EXCEPT !.start = Str(getcwd(wd, isPosix))]]
            ELSE entered(chdir(destination, outcome.fs, wd, isPosix),
                         outcome.fs)
        tried(changed) ==
            IF changed.value = Raised("FileNotFoundError") /\ self.make
            THEN made(makedirs(destination, fsys, wd, isPosix))
            ELSE entered(changed, fsys)
    IN  tried(chdir(destination, fsys, wd, isPosix))

(* directory.__enter__: what it raises, the filesystem, the working        *)
(* directory and the scope object after it                                 *)
__enter__(self, fsys, wd, isPosix) ==
    LET destination ==
            IF ~isPosix /\ _drive_reference(self.destination)
            THEN self.destination \o <<ossep(isPosix)>>
            ELSE self.destination
        started == [self EXCEPT !.start = Str(getcwd(wd, isPosix))]
        entered(changed, fsys_) ==
            [value |-> changed.value, fs |-> fsys_, cwd |-> changed.cwd,
             self |-> started]
        made(outcome) ==
            IF outcome.value # None
            THEN [value |-> outcome.value, fs |-> fsys, cwd |-> wd,
                  self |-> started]
            ELSE entered(chdir(destination, outcome.fs, wd, isPosix),
                         outcome.fs)
        tried(changed) ==
            IF changed.value = Raised("FileNotFoundError") /\ self.make
            THEN made(makedirs(destination, fsys, wd, isPosix))
            ELSE entered(changed, fsys)
    IN  tried(chdir(destination, fsys, wd, isPosix))

(* directory.__exit__: what it raises and the working directory after it *)
__exit__(self, fsys, wd, isPosix) ==
    IF self.start # None /\ self.start.path # <<>>
    THEN chdir(self.start.path, fsys, wd, isPosix)
    ELSE [value |-> None, cwd |-> wd]

-----------------------------------------------------------------------------
(* File._riter(blocks=False): the lines of a file, last block first *)

min(m, n) == IF m <= n THEN m ELSE n

(* the non-empty lines[index] for index from the last one down to 1 *)
RECURSIVE _riter_lines(_, _)
_riter_lines(lines, index) ==
    IF index < 2 THEN <<>>
    ELSE (IF Len(lines[index]) > 0 THEN <<lines[index]>> ELSE <<>>)
             \o _riter_lines(lines, index - 1)

(* the lines of one block after the segment kept from the block behind it *)
(* was joined to the last of them                                          *)
_riter_joined(content, segment) ==
    LET lines == rsplitAll(content, "\n")
    IN  IF segment # None /\ content[Len(content)] # "\n"
        THEN [lines EXCEPT ![Len(lines)] = @ \o segment.path]
        ELSE lines

(* what one block yields: the kept segment when the block ends a line,    *)
(* the lines of the block but its first, and then its first line          *)
_riter_block(content, segment) ==
    (IF segment # None /\ content[Len(content)] = "\n"
     THEN <<segment.path>> ELSE <<>>)
        \o _riter_lines(_riter_joined(content, segment),
                        Len(_riter_joined(content, segment)))
        \o <<Head(_riter_joined(content, segment))>>

(* the block that ends offset characters before the end of the file *)
_riter_read(file, offset, read_amount) ==
    SubSeq(file, Len(file) - offset + 1, Len(file) - offset + read_amount)

RECURSIVE _riter_loop(_, _, _, _, _)
_riter_loop(file, length, offset, remaining_size, segment) ==
    IF remaining_size <= 0 THEN <<>>
    ELSE _riter_block(_riter_read(file, min(Len(file), offset + length),
                                  min(remaining_size, length)),
                      segment)
             \o _riter_loop(file, length, min(Len(file), offset + length),
                            remaining_size - length,
                            Str(Head(_riter_joined(
                                _riter_read(file,
                                            min(Len(file), offset + length),
                                            min(remaining_size, length)),
                                segment))))

(* everything the generator yields for a file of these characters *)
_riter(file, length) == _riter_loop(file, length, 0, Len(file), None)

-----------------------------------------------------------------------------
(* utilities.compress: the archive of a directory *)

(* the path os.walk(os.curdir) gives for a directory below the working     *)
(* directory                                                               *)
_compress_path(top, wd, isPosix) ==
    curdir \o osString(SubSeq(top, Len(wd) + 1, Len(top)), isPosix)

(* Path(path, chain=True).normalise().strip().join(file).path *)
_compress_file_path(path, file, isPosix) ==
    join(strip(normalise(path, ossep(isPosix), TRUE, TRUE, FALSE), "both"),
         <<file>>, ossep(isPosix))

(* for path, _, files in os.walk(os.curdir): for file in files *)
RECURSIVE _compress_files(_, _, _)
_compress_files(walked_levels, wd, isPosix) ==
    IF walked_levels = <<>> THEN <<>>
    ELSE [i \in 1..Len(Head(walked_levels).nondirs) |->
             [path |-> _compress_path(Head(walked_levels).top, wd, isPosix),
              file |-> Head(walked_levels).nondirs[i]]]
         \o _compress_files(Tail(walked_levels), wd, isPosix)

(* the paths given to zip_file.write in the loop over the walk: walked_ is *)
(* the count of the files passed before                                    *)
RECURSIVE _compress_written(_, _, _, _, _, _)
_compress_written(files, walked_, inside, output_name, excludes, isPosix) ==
    IF files = <<>> THEN <<>>
    ELSE IF inside /\ walked_ + 1 = 1 /\ Head(files).file = output_name
    THEN _compress_written(Tail(files), walked_ + 1, inside, output_name,
                           excludes, isPosix)
    ELSE (IF split(_compress_file_path(Head(files).path, Head(files).file,
                                       isPosix),
                   ossep(isPosix), -1) \in excludes
          THEN <<>>
          ELSE <<_compress_file_path(Head(files).path, Head(files).file,
                                     isPosix)>>)
             \o _compress_written(Tail(files), walked_ + 1, inside, output_name,
                                  excludes, isPosix)

(* output_name: the given name, '.zip' inside the directory, the name of   *)
(* the directory or a random name beside it                                *)
_compress_output_name(root_, name_, inside, salted, isPosix) ==
    IF name_ # <<>> THEN name_
    ELSE IF inside THEN <<".", "z", "i", "p">>
    ELSE IF split(root_, ossep(isPosix), 1)[2] # <<>>
    THEN split(root_, ossep(isPosix), 1)[2]
    ELSE extension(salted, <<".", "z", "i", "p">>, ossep(isPosix), isPosix)

(* what compress gives back: what it returns or raises, the filesystem,    *)
(* the working directory and the entries of the archive                    *)
Archived(value, fsys, wd, entries) ==
    [value |-> value, fs |-> fsys, cwd |-> wd, entries |-> entries]

(* the body of the two with statements: the archive is open at output_name *)
_compress_archived(output_name, files, include, inside, archive, scope, wd, order, isPosix) ==
    IF archive.value # None
    THEN Archived(archive.value, archive.fs,
                  __exit__(scope, archive.fs, wd, isPosix).cwd, <<>>)
    ELSE IF files # <<>> /\ include
    THEN (IF \E i \in 1..Len(files) : ~exists(files[i], archive.fs, wd, isPosix)
          THEN Archived(Raised("FileNotFoundError"), archive.fs,
                        __exit__(scope, archive.fs, wd, isPosix).cwd, <<>>)
          ELSE Archived(Str(output_name), archive.fs,
                        __exit__(scope, archive.fs, wd, isPosix).cwd, files))
    ELSE Archived(Str(output_name), archive.fs,
                  __exit__(scope, archive.fs, wd, isPosix).cwd,
                  _compress_written(
                      _compress_files(walk(wd, archive.fs, order), wd, isPosix),
                      0, inside, output_name,
                      {split(files[i], ossep(isPosix), -1) :
                          i \in 1..Len(files)},
                      isPosix))

(* zipfile.ZipFile(output_name, 'w'): the archive is made, empty, where   *)
(* the name leads from the working directory                               *)
_compress_zipfile(output_name, fsys, wd, isPosix) ==
    IF Len(output_name) > 2 /\ SubSeq(output_name, 1, 2) = pardir
          /\ output_name[3] \in osSeparators(isPosix)
    THEN opened(SubSeq(output_name, 4, Len(output_name)), FALSE, <<>>, fsys,
                holder(wd), isPosix)
    ELSE opened(output_name, FALSE, <<>>, fsys, wd, isPosix)

(* with directory(root, make=True): with zipfile.ZipFile(output_name, ...) *)
_compress_entered(output_name, files, include, inside, entered, fsys, wd, order, isPosix) ==
    IF entered.value # None THEN Archived(entered.value, fsys, wd, <<>>)
    ELSE _compress_archived(
             output_name, files, include, inside,
             _compress_zipfile(output_name, entered.fs, entered.cwd, isPosix),
             entered.self, entered.cwd, order, isPosix)

(* compress(root, name, files=files, include=include, inside=inside); an   *)
(* empty name and no files stand for None, salted is what salt(4) returns  *)
compress(root_, name_, files, include, inside, salted, fsys, wd, order, isPosix) ==
    _compress_entered(
        IF inside /\ isdir(root_, fsys, wd, isPosix)
        THEN _compress_output_name(root_, name_, TRUE, salted, isPosix)
        ELSE join(pardir,
                  <<_compress_output_name(root_, name_, FALSE, salted, isPosix)>>,
                  ossep(isPosix)),
        files, include, inside /\ isdir(root_, fsys, wd, isPosix),
        __enter__(directory(root_, TRUE, isPosix), fsys, wd, isPosix),
        fsys, wd, order, isPosix)

-----------------------------------------------------------------------------
(* utilities.feed: the lines of an iterable without some of the first and  *)
(* of the last                                                             *)

(* what an iterable still gives once count of its items were taken through *)
(* an iterator of it: a list is iterated from its first item again, a      *)
(* one-shot iterator goes on behind the items taken                        *)
iterated(iterator, oneshot, count) ==
    IF oneshot THEN SubSeq(iterator, count + 1, Len(iterator)) ELSE iterator

(* itertools.islice(iterator, count) *)
islice(iterator, count) == SubSeq(iterator, 1, min(count, Len(iterator)))

(* utilities._headless: a generator, so that its items are given only once *)
_headless(iterator, count) == SubSeq(iterator, count + 1, Len(iterator))

(* utilities._tailless: for every item that the iterable still gives, the  *)
(* item at the left of the queue is yielded and the item joins the queue   *)
_tailless(iterator, oneshot, count) ==
    SubSeq(islice(iterator, count) \o iterated(iterator, oneshot, count),
           1, Len(iterated(iterator, oneshot, count)))

(* str.strip() of a line *)
stripped(line) == rstrip(lstrip(line, {" ", "\n"}), {" ", "\n"})

(* the loop of feed over the lines left, without split *)
RECURSIVE feed_lines(_, _, _)
feed_lines(file, strip_, skip) ==
    IF file = <<>> THEN <<>>
    ELSE (IF (IF strip_ THEN stripped(Head(file)) ELSE Head(file)) # <<>>
                \/ ~skip
          THEN <<IF strip_ THEN stripped(Head(file)) ELSE Head(file)>>
          ELSE <<>>)
             \o feed_lines(Tail(file), strip_, skip)

(* list(feed(file, strip=strip_, skip=skip, headless=headless,            *)
(* tailless=tailless)); oneshot tells a one-shot iterator from a list, and *)
(* 0 stands for False                                                      *)
feed(file, oneshot, strip_, skip, headless, tailless) ==
    feed_lines(
        IF tailless # 0
        THEN _tailless(IF headless # 0 THEN _headless(file, headless) ELSE file,
                       oneshot \/ headless # 0, tailless)
        ELSE IF headless # 0 THEN _headless(file, headless) ELSE file,
        strip_, skip)

-----------------------------------------------------------------------------
(* File._descendants as the generator it is: the body runs from one yield  *)
(* to the next each time the caller asks for a record                      *)

(* the generator object that children returns: nothing of the body has    *)
(* run.  pending holds the directories that os.walk('.') has still to      *)
(* list, as names below '.', scope the directory scope of the with         *)
(* statement                                                               *)
generator(self, kwargs) ==
    [file |-> self, kwargs |-> kwargs, pos |-> "created", scope |-> None,
     pending |-> <<>>, count |-> 0, records |-> <<>>]

(* what a step of the generator leaves: the generator, the working         *)
(* directory and what next() returned or raised                            *)
Stepped(gen, wd, value) == [gen |-> gen, cwd |-> wd, value |-> value]

(* one (list_root, directory_list, file_list) of os.walk('.'): the listing *)
(* of the directory that the names lead to from the working directory      *)
walk_level(names, wd, fsys, order) ==
    [top |-> names,
     dirs |-> SelectSeq(scan(wd \o names, fsys, order),
                        LAMBDA n : fsys[wd \o names \o <<n>>].kind = "dir"),
     nondirs |-> SelectSeq(scan(wd \o names, fsys, order),
                           LAMBDA n : fsys[wd \o names \o <<n>>].kind = "file")]

(* the record yielded for one level of the walk *)
_descendants_yielding(root_file, kwargs, level, wd, isPosix) ==
    LET relative_path ==
            normalise(lstrip(curdir \o osString(level.top, isPosix), {"."}),
                      "/", TRUE, TRUE, FALSE)
        separate == kwargs.separate \/ (kwargs.files /\ ~kwargs.directories)
                        \/ (kwargs.directories /\ ~kwargs.files)
        milter(names) ==
            _descendants_milter(root_file, relative_path, names,
                                kwargs.instances, wd, isPosix)
    IN  ("path" :> relative_path)
            @@ (IF separate /\ kwargs.directories
                THEN "directories" :> milter(level.dirs)
                ELSE [k \in {} |-> <<>>])
            @@ (IF separate /\ kwargs.files
                THEN "files" :> milter(level.nondirs)
                ELSE [k \in {} |-> <<>>])
            @@ (IF ~separate THEN "content" :> milter(level.dirs \o level.nondirs)
                ELSE [k \in {} |-> <<>>])

(* the end of the with statement: the scope changes back to its start and  *)
(* the generator is exhausted                                              *)
_descendants_exit(gen, fsys, wd, isPosix) ==
    Stepped([gen EXCEPT !.pos = IF __exit__(gen.scope, fsys, wd, isPosix).value
                                      = None
                                THEN "done" ELSE "raised",
                        !.pending = <<>>],
            __exit__(gen.scope, fsys, wd, isPosix).cwd,
            IF __exit__(gen.scope, fsys, wd, isPosix).value = None
            THEN Raised("StopIteration")
            ELSE __exit__(gen.scope, fsys, wd, isPosix).value)

(* the directories still to list once a level was listed: those of the     *)
(* level before the ones that were pending                                 *)
walk_pending(gen, level) ==
    [i \in 1..Len(level.dirs) |-> Append(level.top, level.dirs[i])]
        \o Tail(gen.pending)

(* the loop over os.walk('.') up to the next yield: a directory that       *)
(* cannot be listed from the working directory is passed over              *)
RECURSIVE _descendants_walk(_, _, _, _, _)
_descendants_walk(gen, fsys, wd, order, isPosix) ==
    IF gen.pending = <<>> THEN _descendants_exit(gen, fsys, wd, isPosix)
    ELSE IF wd \o Head(gen.pending) \notin DOMAIN fsys
               \/ fsys[wd \o Head(gen.pending)].kind # "dir"
    THEN _descendants_walk([gen EXCEPT !.pending = Tail(@)], fsys, wd, order,
                           isPosix)
    ELSE IF gen.kwargs.offset # 0 /\ gen.kwargs.offset >= gen.count + 1
    THEN _descendants_walk(
             [gen EXCEPT !.count = @ + 1,
                         !.pending = walk_pending(gen,
                             walk_level(Head(gen.pending), wd, fsys, order))],
             fsys, wd, order, isPosix)
    ELSE IF gen.kwargs.limit # 0
              /\ gen.kwargs.limit + gen.kwargs.offset < gen.count + 1
    THEN _descendants_exit(gen, fsys, wd, isPosix)
    ELSE Stepped(
             [gen EXCEPT !.pos = "suspended", !.count = @ + 1,
                         !.pending = walk_pending(gen,
                             walk_level(Head(gen.pending), wd, fsys, order)),
                         !.records = Append(@,
                             _descendants_yielding(gen.file, gen.kwargs,
                                 walk_level(Head(gen.pending), wd, fsys, order),
                                 wd, isPosix))],
             wd,
             _descendants_yielding(gen.file, gen.kwargs,
                                   walk_level(Head(gen.pending), wd, fsys, order),
                                   wd, isPosix))

(* the start of the body: root_file, the directory scope and the first     *)
(* turn of the loop                                                        *)
_descendants_entered(gen, entered, fsys, wd, order, isPosix) ==
    IF entered.value # None
    THEN Stepped([gen EXCEPT !.pos = "raised"], wd, entered.value)
    ELSE _descendants_walk([gen EXCEPT !.scope = entered.self,
                                       !.pending = <<<<>>>>],
                           fsys, entered.cwd, order, isPosix)

(* next(generator) *)
_descendants_next(gen, fsys, wd, order, isPosix) ==
    IF gen.pos = "created"
    THEN (IF _director(gen.file, FALSE, fsys, wd, isPosix) = None
          THEN Stepped([gen EXCEPT !.pos = "raised"], wd,
                       Raised("AttributeError"))
          ELSE _descendants_entered(
                   gen,
                   __enter__(directory(gen.file.full_path, FALSE, isPosix),
                             fsys, wd, isPosix),
                   fsys, wd, order, isPosix))
    ELSE IF gen.pos = "suspended"
    THEN (IF ~gen.kwargs.recursive
          THEN _descendants_exit(gen, fsys, wd, isPosix)
          ELSE _descendants_walk(gen, fsys, wd, order, isPosix))
    ELSE Stepped(gen, wd, Raised("StopIteration"))

-----------------------------------------------------------------------------
(* File.read in forward mode: what it returns, and the lazy sequences it   *)
(* returns with generator=True as the consumer finds them                  *)

(* the lines of some content, each with its terminator: what iterating a   *)
(* file object and what readlines give                                     *)
RECURSIVE readlines(_, _)
readlines(content, line) ==
    IF content = <<>> THEN (IF line = <<>> THEN <<>> ELSE <<line>>)
    ELSE IF Head(content) = 10
    THEN <<Append(line, 10)>> \o readlines(Tail(content), <<>>)
    ELSE readlines(Tail(content), Append(line, Head(content)))

(* the blocks of some content: what opened.read(length) gives call after   *)
(* call                                                                    *)
RECURSIVE readblocks(_, _)
readblocks(content, length) ==
    IF content = <<>> THEN <<>>
    ELSE <<SubSeq(content, 1, min(length, Len(content)))>>
             \o readblocks(SubSeq(content, min(length, Len(content)) + 1,
                                  Len(content)), length)

(* a lazy sequence over an open file object: the elements it has still to  *)
(* read from the file                                                      *)
iterator(elements) == [kind |-> "stream", closed |-> FALSE, val |-> elements]

(* the end of the with statement of read: the file object is closed, and   *)
(* with it every sequence that reads from it                               *)
with_exit(initial_return) ==
    IF initial_return.kind = "stream"
    THEN [initial_return EXCEPT !.closed = TRUE]
    ELSE initial_return

(* File.read(generator, lines, blocks, reverse=False, length): the value   *)
(* that the with statement leaves                                          *)
read_forward(self, generator_, lines, blocks, length, fsys, wd, isPosix) ==
    IF ~exists(self.full_path, fsys, wd, isPosix)
    THEN Raised("FileNotFoundError")
    ELSE IF isdir(self.full_path, fsys, wd, isPosix)
    THEN Raised(IF isPosix THEN "IsADirectoryError" ELSE "PermissionError")
    ELSE with_exit(
             IF generator_ /\ blocks
             THEN iterator(readblocks(
                      fsys[osLocate(self.full_path, wd, isPosix)].content,
                      length))
             ELSE IF generator_
             THEN iterator(readlines(
                      fsys[osLocate(self.full_path, wd, isPosix)].content,
                      <<>>))
             ELSE IF lines
             THEN [kind |-> "list",
                   val |-> readlines(
                       fsys[osLocate(self.full_path, wd, isPosix)].content,
                       <<>>)]
             ELSE [kind |-> "bytes",
                   val |-> fsys[osLocate(self.full_path, wd, isPosix)].content])

(* next() of a lazy sequence of which count elements were taken: the read  *)
(* of a closed file object raises                                          *)
next_element(stream, count) ==
    IF stream.closed THEN Raised("ValueError")
    ELSE IF count >= Len(stream.val) THEN Raised("StopIteration")
    ELSE [kind |-> "bytes", val |-> stream.val[count + 1]]

-----------------------------------------------------------------------------
(* Inputs *)

Char == {"/", "\\", ".", "a"}

Strings(n) == UNION {[1..k -> Char] : k \in 0..n}

(* the paths of the documented scenarios *)
Scenarios ==
    { <<"1","2","3","/",".",".","/","a","b","c",".","m","d">>,
      <<"/","a","b","c","/",".",".","/">>,
      <<"/","a","b","c","/",".",".","/","x","y","z">> }

Sep == separator(posix, osPosix)

-----------------------------------------------------------------------------
(* The caller of the one-path operations *)

InitPath ==
    /\ osPosix \in BOOLEAN
    /\ posix \in BOOLEAN
    /\ a \in Strings(MaxLen) \cup Scenarios
    /\ b = <<>>
    /\ c = <<>>
    /\ pc = "start"
    /\ flags = [collapse |-> TRUE, resolve |-> TRUE, absolute |-> FALSE]
    /\ x = <<>>
    /\ y = <<>>
    /\ fs = NoFiles
    /\ cwd = <<>>
    /\ scandir = "ascending"
    /\ root = None
    /\ f = None
    /\ g = None

(* x = Path(a).normalise(collapse, resolve, absolute) *)
Normalise(collapse, resolve, absolute) ==
    /\ pc = "start"
    /\ flags' = [collapse |-> collapse, resolve |-> resolve,
                 absolute |-> absolute]
    /\ x' = normalise(a, Sep, collapse, resolve, absolute)
    /\ pc' = "normalised"
    /\ UNCHANGED <<pathVars, y, fileVars>>

NextPath == \E collapse, resolve, absolute \in BOOLEAN :
                Normalise(collapse, resolve, absolute)

SpecPath == InitPath /\ [][NextPath]_vars

-----------------------------------------------------------------------------
(* The caller of the three-path operations: x = Path(Path(a).join(b))      *)
(* .join(c) and y = Path(a).join(Path(b).join(c)), one join per step       *)

InitJoin ==
    /\ osPosix \in BOOLEAN
    /\ posix \in BOOLEAN
    /\ a \in Strings(MaxJoinLen)
    /\ b \in Strings(MaxJoinLen - Len(a))
    /\ c \in Strings(MaxJoinLen - Len(a) - Len(b))
    /\ pc = "start"
    /\ flags = [collapse |-> TRUE, resolve |-> TRUE, absolute |-> FALSE]
    /\ x = <<>>
    /\ y = <<>>
    /\ fs = NoFiles
    /\ cwd = <<>>
    /\ scandir = "ascending"
    /\ root = None
    /\ f = None
    /\ g = None

(* x = Path(a).join(b) *)
JoinAB ==
    /\ pc = "start"
    /\ x' = join(a, <<b>>, Sep)
    /\ pc' = "ab"
    /\ UNCHANGED <<pathVars, flags, y, fileVars>>

(* x = Path(x).join(c) *)
JoinXC ==
    /\ pc = "ab"
    /\ x' = join(x, <<c>>, Sep)
    /\ pc' = "abc"
    /\ UNCHANGED <<pathVars, flags, y, fileVars>>

(* y = Path(b).join(c) *)
JoinBC ==
    /\ pc = "abc"
    /\ y' = join(b, <<c>>, Sep)
    /\ pc' = "bc"
    /\ UNCHANGED <<pathVars, flags, x, fileVars>>

(* y = Path(a).join(y) *)
JoinAY ==
    /\ pc = "bc"
    /\ y' = join(a, <<y>>, Sep)
    /\ pc' = "joined"
    /\ UNCHANGED <<pathVars, flags, x, fileVars>>

NextJoin == JoinAB \/ JoinXC \/ JoinBC \/ JoinAY

SpecJoin == InitJoin /\ [][NextJoin]_vars

-----------------------------------------------------------------------------
(* The caller of File(...), child and sibling *)

MaxPathLen == 4    \* longest total length of the strings given to a File

jail == <<"r">>
inner == <<"a">>
other == <<"a", "a">>

(* a jail directory r holding a directory a (with a file a) and a file aa *)
JailFiles ==
    (<<>> :> Dir) @@ (<<jail>> :> Dir) @@ (<<jail, inner>> :> Dir)
        @@ (<<jail, inner, inner>> :> RegularFile(<<1>>, 0))
        @@ (<<jail, other>> :> RegularFile(<<>>, 0))

(* absolute roots of the host *)
Roots(isPosix) ==
    IF isPosix THEN {<<"/">>, <<"/", "r">>}
    ELSE {<<"c", ":", "\\">>, <<"c", ":", "\\", "r">>}

InitFile ==
    /\ osPosix \in BOOLEAN
    /\ posix = osPosix
    /\ a \in Strings(MaxPathLen)
    /\ b \in Strings(MaxPathLen - Len(a))
    /\ c = <<>>
    /\ pc = "start"
    /\ flags = [instance |-> FALSE, full |-> FALSE]
    /\ x = None
    /\ y = None
    /\ fs = JailFiles
    /\ cwd \in {<<>>, <<jail>>}
    /\ scandir = "ascending"
    /\ root \in {Str(r) : r \in Roots(osPosix)}
    /\ f = None
    /\ g = None

(* f = File(a, root) *)
Construct ==
    /\ pc = "start"
    /\ f' = FileInit(Str(a), root, cwd, osPosix)
    /\ pc' = "constructed"
    /\ UNCHANGED <<pathVars, flags, x, y, fs, cwd, scandir, root, g>>

(* g = File(f, rootArg): a File made from another File *)
ConstructFrom(rootArg) ==
    /\ pc = "constructed"
    /\ y' = rootArg
    /\ g' = FileInit(f, rootArg, cwd, osPosix)
    /\ pc' = "copied"
    /\ UNCHANGED <<pathVars, flags, x, fs, cwd, scandir, root, f>>

(* x = f.child(b, instance, full) *)
Child(instance, full) ==
    /\ pc = "constructed"
    /\ flags' = [instance |-> instance, full |-> full]
    /\ x' = _descendant(f, b, FALSE, instance, full, fs, cwd, osPosix)
    /\ pc' = "child"
    /\ UNCHANGED <<pathVars, y, fileVars>>

(* x = f.sibling(b, instance, full) *)
Sibling(instance, full) ==
    /\ pc = "constructed"
    /\ flags' = [instance |-> instance, full |-> full]
    /\ x' = _descendant(f, b, TRUE, instance, full, fs, cwd, osPosix)
    /\ pc' = "sibling"
    /\ UNCHANGED <<pathVars, y, fileVars>>

NextFile ==
    \/ Construct
    \/ \E rootArg \in {None} \cup {Str(r) : r \in Roots(osPosix)} :
            ConstructFrom(rootArg)
    \/ \E instance, full \in BOOLEAN : Child(instance, full)
    \/ \E instance, full \in BOOLEAN : Sibling(instance, full)

SpecFile == InitFile /\ [][NextFile]_vars

-----------------------------------------------------------------------------
(* The caller of File.compare and of the comparison operators: two Files   *)
(* /a and /b of one root, over every small pair of trees                   *)

MaxSize == 1       \* longest file content

(* file contents: of every length two that differ in their last byte *)
Contents ==
    {[i \in 1..n |-> 0] : n \in 0..MaxSize}
        \cup {[i \in 1..n |-> IF i = n THEN 1 ELSE 0] : n \in 1..MaxSize}

(* files: every content, and a later modification time for some *)
Variants ==
    {RegularFile(content, 0) : content \in Contents}
        \cup {RegularFile(content, 1) :
                 content \in {cn \in Contents : cn # <<>> /\ cn[Len(cn)] = 1}}

Tree(entries) == [kind |-> "tree", entries |-> entries]

Leaves == {None} \cup Variants
SubDirs == {Tree(inner :> leaf) : leaf \in Leaves}
TopDirs ==
    {Tree((<<"a">> :> first) @@ (<<"b">> :> second)) :
        first \in Leaves \cup SubDirs, second \in Leaves}
Tops == Leaves \cup TopDirs

RECURSIVE Merged(_)
Merged(functions) ==
    IF functions = {} THEN [q \in {} |-> Dir]
    ELSE LET fn == CHOOSE fn \in functions : TRUE
         IN  fn @@ Merged(functions \ {fn})

(* the entries of a tree put at a location *)
RECURSIVE Place(_, _)
Place(at, tree) ==
    IF tree.kind = "None" THEN [q \in {} |-> Dir]
    ELSE IF tree.kind = "file" THEN (at :> tree)
    ELSE (at :> Dir)
            @@ Merged({Place(Append(at, n), tree.entries[n]) :
                          n \in DOMAIN tree.entries})

CompareFiles ==
    {(<<>> :> Dir) @@ (<<jail>> :> Dir)
        @@ Place(<<jail, <<"a">>>>, left) @@ Place(<<jail, <<"b">>>>, right) :
        left \in Tops, right \in Tops}

JailRoot(isPosix) ==
    IF isPosix THEN <<"/", "r">> ELSE <<"c", ":", "\\", "r">>

InitCompare ==
    /\ osPosix \in BOOLEAN
    /\ posix = osPosix
    /\ a = <<"/", "a">>
    /\ b = <<"/", "b">>
    /\ c = <<>>
    /\ pc = "start"
    /\ flags = [call |-> "none"]
    /\ x = None
    /\ y = None
    /\ fs \in CompareFiles
    /\ cwd = <<>>
    /\ scandir = "ascending"
    /\ root = Str(JailRoot(osPosix))
    /\ f = FileInit(Str(a), root, cwd, osPosix)
    /\ g = FileInit(Str(b), root, cwd, osPosix)

(* x = f.compare(g, method, shallow, recurse, inverse) *)
Compare(method, shallow, recurse, inverse) ==
    /\ pc = "start"
    /\ flags' = [call |-> "compare", method |-> method, shallow |-> shallow,
                 recurse |-> recurse, inverse |-> inverse]
    /\ x' = compare(f, g, method,
                    [shallow |-> shallow, recurse |-> recurse,
                     inverse |-> inverse], fs, cwd, osPosix)
    /\ pc' = "compared"
    /\ UNCHANGED <<pathVars, y, fileVars>>

(* x = (f op g) for one of ==, !=, <, >, <=, >= *)
Operator(op) ==
    /\ pc = "start"
    /\ flags' = [call |-> op]
    /\ x' = operator(op, f, g, fs, cwd, osPosix)
    /\ pc' = "compared"
    /\ UNCHANGED <<pathVars, y, fileVars>>

NextCompare ==
    \/ \E shallow, recurse, inverse \in BOOLEAN :
            Compare("equality", shallow, recurse, inverse)
    \/ \E method \in {"sizes", "counts"} : Compare(method, TRUE, TRUE, FALSE)
    \/ \E op \in {"eq", "ne", "lt", "gt", "le", "ge"} : Operator(op)

SpecCompare == InitCompare /\ [][NextCompare]_vars

-----------------------------------------------------------------------------
(* The caller of the walks: a File of the jail r over every small tree     *)
(* /a of three levels: a file b, a directory e that may hold a one-byte    *)
(* file m and a directory s that may hold a directory t, which may hold a  *)
(* file m                                                                  *)

WalkLeaves == {None} \cup {RegularFile(content, 0) : content \in Contents}

WalkTrees ==
    {Tree((<<"b">> :> first) @@ (<<"e">> :> second) @@ (<<"s">> :> third)) :
        first \in WalkLeaves,
        second \in {None} \cup {Tree(<<"m">> :> leaf) :
                                     leaf \in {None, RegularFile(<<1>>, 0)}},
        third \in {None} \cup
                  {Tree(<<"t">> :> deep) :
                      deep \in {None} \cup {Tree(<<"m">> :> leaf) :
                                                leaf \in WalkLeaves}}}

WalkFiles ==
    {(<<>> :> Dir) @@ (<<jail>> :> Dir) @@ Place(<<jail, <<"a">>>>, tree) :
        tree \in WalkTrees}

(* the logical paths of the File: the tree, a file, a directory of the     *)
(* tree and a path that does not exist                                     *)
WalkPaths ==
    {<<"/", "a">>, <<"/", "a", "/", "b">>, <<"/", "a", "/", "s">>,
     <<"/", "d">>}

MaxLimit == 3      \* largest limit and largest offset of a call

InitTree ==
    /\ osPosix \in BOOLEAN
    /\ posix = osPosix
    /\ a \in WalkPaths
    /\ b = <<>>
    /\ c = <<>>
    /\ pc = "start"
    /\ flags = [call |-> "none"]
    /\ x = None
    /\ y = None
    /\ fs \in WalkFiles
    /\ cwd = <<>>
    /\ scandir \in {"ascending", "descending"}
    /\ root = Str(JailRoot(osPosix))
    /\ f = FileInit(Str(a), root, cwd, osPosix)
    /\ g = None

(* x = f._checksum(algorithm) *)
Checksum(algorithm) ==
    /\ pc = "start"
    /\ flags' = [call |-> "checksum", algorithm |-> algorithm]
    /\ x' = _checksum(f, algorithm, fs, cwd, scandir, osPosix)
    /\ pc' = "called"
    /\ UNCHANGED <<pathVars, y, fileVars>>

(* x = list(f.children(recursive, offset, limit)) *)
Children(recursive, offset, limit) ==
    /\ pc = "start"
    /\ flags' = [call |-> "children", recursive |-> recursive,
                 offset |-> offset, limit |-> limit]
    /\ x' = children(f, [DescendantsDefaults EXCEPT !.recursive = recursive,
                                                    !.offset = offset,
                                                    !.limit = limit],
                     fs, cwd, scandir, osPosix)
    /\ pc' = "called"
    /\ UNCHANGED <<pathVars, y, fileVars>>

(* x = f._empty *)
Empty ==
    /\ pc = "start"
    /\ flags' = [call |-> "empty"]
    /\ x' = _empty(f, fs, cwd, osPosix)
    /\ pc' = "called"
    /\ UNCHANGED <<pathVars, y, fileVars>>

(* x = f._size(recurse, limit) *)
Size(recurse, limit) ==
    /\ pc = "start"
    /\ flags' = [call |-> "size", recurse |-> recurse, limit |-> limit]
    /\ x' = _size_limit(f, recurse, limit, fs, cwd, scandir, osPosix)
    /\ pc' = "called"
    /\ UNCHANGED <<pathVars, y, fileVars>>

(* x = f._count(recurse, separate, limit, limit_files, limit_directories) *)
Count(recurse, separate, limit, limit_files, limit_directories) ==
    /\ pc = "start"
    /\ flags' = [call |-> "count", recurse |-> recurse,
                 separate |-> separate, limit |-> limit,
                 limit_files |-> limit_files,
                 limit_directories |-> limit_directories]
    /\ x' = _count(f, recurse, separate, limit, limit_files,
                   limit_directories, fs, cwd, scandir, osPosix)
    /\ pc' = "called"
    /\ UNCHANGED <<pathVars, y, fileVars>>

NextTree ==
    \/ \E algorithm \in {"crc32", "md5"} : Checksum(algorithm)
    \/ Empty
    \/ \E recurse \in BOOLEAN : \E limit \in 0..MaxLimit : Size(recurse, limit)
    \/ \E recurse, separate, limit_files, limit_directories \in BOOLEAN :
            \E limit \in 0..MaxLimit :
                Count(recurse, separate, limit, limit_files,
                      limit_directories)
    \/ \E recursive \in BOOLEAN : \E offset, limit \in 0..MaxLimit :
            Children(recursive, offset, limit)

SpecTree == InitTree /\ [][NextTree]_vars

-----------------------------------------------------------------------------
(* The caller of write, move and _resolve: a File of the jail r, which may *)
(* hold the files a.m, a.t (or a directory of that name), a, a_1.m and     *)
(* r_1 and a directory d that may hold a file a.m                          *)

MaxOverwrite == 3  \* largest overwrite level of a call

WriteFiles ==
    {(<<>> :> Dir) @@ (<<jail>> :> Dir)
        @@ Place(<<jail, <<"a", ".", "m">>>>, first)
        @@ Place(<<jail, <<"a", ".", "t">>>>, second)
        @@ Place(<<jail, <<"a">>>>, third)
        @@ Place(<<jail, <<"a", "_", "1", ".", "m">>>>, fourth)
        @@ Place(<<jail, <<"d">>>>, fifth)
        @@ Place(<<jail, <<"r", "_", "1">>>>, sixth) :
        first \in {None, RegularFile(<<1>>, 0)},
        second \in {None, RegularFile(<<0>>, 0),
                    Tree(<<"a">> :> None)},
        third \in {None, RegularFile(<<>>, 0)},
        fourth \in {None, RegularFile(<<0>>, 0)},
        fifth \in {None, Tree(<<"a", ".", "m">> :> None),
                   Tree(<<"a", ".", "m">> :> RegularFile(<<0>>, 0))},
        sixth \in {None, RegularFile(<<0>>, 0)}}

(* the logical paths of the File and of the destination of a move *)
WritePaths ==
    {<<"/", "a", ".", "m">>, <<"/", "a">>, <<"/", "d">>, <<"/">>,
     <<"/", "n", "/", "a", ".", "m">>}

(* the names of the uploads, and the extensions that are allowed *)
Uploads ==
    {<<"u", ".", "m">>, <<"u", ".", "t">>, <<"u">>, <<"u", ".", "M">>}
Allowed == {<<"m">>}

InitWrite ==
    /\ osPosix \in BOOLEAN
    /\ posix = osPosix
    /\ a \in WritePaths
    /\ b = <<>>
    /\ c = <<>>
    /\ pc = "start"
    /\ flags = [call |-> "none"]
    /\ x = None
    /\ y = None
    /\ fs \in WriteFiles
    /\ cwd = <<>>
    /\ scandir = "ascending"
    /\ root = Str(JailRoot(osPosix))
    /\ f = FileInit(Str(a), root, cwd, osPosix)
    /\ g = None

(* x = f._resolve() *)
Resolve ==
    /\ pc = "start"
    /\ flags' = [call |-> "resolve"]
    /\ x' = _resolve(f, fs, cwd, osPosix)
    /\ y' = [fs |-> fs, f |-> f]
    /\ pc' = "called"
    /\ UNCHANGED <<pathVars, fileVars>>

(* what a call returned or raised, and the filesystem it left *)
Returned(outcome) ==
    x' = outcome.value /\ fs' = outcome.fs

(* what File.move returned or raised, the filesystem it left and the File  *)
(* that f is after it                                                      *)
Rebound(outcome) ==
    x' = outcome.value /\ fs' = outcome.fs /\ f' = outcome.self

(* x = f.write(content, overwrite), or what it raises; y is the state      *)
(* before the call                                                         *)
Write(content, overwrite) ==
    /\ pc = "start"
    /\ flags' = [call |-> "write", content |-> content,
                 overwrite |-> overwrite]
    /\ Returned(write(f, Str(content), overwrite, FALSE, Allowed, fs, cwd,
                      scandir, osPosix))
    /\ y' = [fs |-> fs, f |-> f]
    /\ pc' = "called"
    /\ UNCHANGED <<pathVars, cwd, scandir, root, f, g>>

(* x = f.write(storage, overwrite, binary=True, allowed=Allowed) for an    *)
(* upload                                                                  *)
Upload(filename, overwrite) ==
    /\ pc = "start"
    /\ flags' = [call |-> "upload", filename |-> filename,
                 overwrite |-> overwrite]
    /\ Returned(write(f, [kind |-> "upload", filename |-> filename,
                          stream |-> <<2>>],
                      overwrite, TRUE, Allowed, fs, cwd, scandir, osPosix))
    /\ y' = [fs |-> fs, f |-> f]
    /\ pc' = "called"
    /\ UNCHANGED <<pathVars, cwd, scandir, root, f, g>>

(* x = f.move(path, overwrite), which rebinds f *)
Move(path, overwrite) ==
    /\ pc = "start"
    /\ flags' = [call |-> "move", path |-> path, overwrite |-> overwrite]
    /\ Rebound(move(f, path, overwrite, fs, cwd, scandir, osPosix))
    /\ y' = [fs |-> fs, f |-> f]
    /\ pc' = "called"
    /\ UNCHANGED <<pathVars, cwd, scandir, root, g>>

NextWrite ==
    \/ Resolve
    \/ \E overwrite \in -1..MaxOverwrite : Write(<<2>>, overwrite)
    \/ \E filename \in Uploads : \E overwrite \in 0..MaxOverwrite :
            Upload(filename, overwrite)
    \/ \E path \in WritePaths : \E overwrite \in -1..MaxOverwrite :
            Move(path, overwrite)

SpecWrite == InitWrite /\ [][NextWrite]_vars

(* a jail directory r that holds some of a, ab and b, each a file or a     *)
(* directory                                                                *)
MatchFiles ==
    LET entry(name_, leaf) ==
            IF leaf = None THEN [q \in {} |-> Dir]
            ELSE (<<jail, name_>> :> leaf)
    IN  {(<<>> :> Dir) @@ (<<jail>> :> Dir) @@ entry(<<"a">>, first)
            @@ entry(<<"a", "b">>, second) @@ entry(<<"b">>, third) :
            first, second, third \in {None, Dir, RegularFile(<<1>>, 0)}}

(* partial paths: names that are there, the start of names, no name at all *)
(* and a parent that is not there                                          *)
MatchPaths ==
    {<<"/", "a">>, <<"/", "a", "b">>, <<"/", "b">>, <<"/">>, <<"/", "c">>,
     <<"/", "n", "/", "a">>}

InitMatch ==
    /\ osPosix \in BOOLEAN
    /\ posix = osPosix
    /\ a \in MatchPaths
    /\ b = <<>>
    /\ c = <<>>
    /\ pc = "start"
    /\ flags = [call |-> "none"]
    /\ x = None
    /\ y = None
    /\ fs \in MatchFiles
    /\ cwd = <<>>
    /\ scandir \in {"ascending", "descending"}
    /\ root = Str(JailRoot(osPosix))
    /\ f = FileInit(Str(a), root, cwd, osPosix)
    /\ g = None

(* x = File(a, root, match=True); f is File(a, root) *)
Match ==
    /\ pc = "start"
    /\ flags' = [call |-> "match"]
    /\ x' = FileInitMatch(f, fs, cwd, scandir, osPosix)
    /\ pc' = "called"
    /\ UNCHANGED <<pathVars, y, fileVars>>

NextMatch == Match

SpecMatch == InitMatch /\ [][NextMatch]_vars

MaxScopes == 3     \* most directory scopes that a caller opens

(* a filesystem with a directory r that holds a directory a and a file f,  *)
(* and a holding a directory b or not                                      *)
DirectoryFiles ==
    {(<<>> :> Dir) @@ (<<jail>> :> Dir) @@ (<<jail, <<"a">>>> :> Dir)
        @@ (<<jail, <<"f">>>> :> RegularFile(<<1>>, 0)) @@ deeper :
        deeper \in {[q \in {} |-> Dir], (<<jail, <<"a">>, <<"b">>>> :> Dir)}}

(* the destinations of the scopes and whether they are made: a directory   *)
(* that may be there, one that is not, an absolute path, the parent, the   *)
(* empty string, a drive, the home directory and a file                    *)
Destinations ==
    {<<<<"a">>, FALSE>>, <<<<"n">>, FALSE>>, <<<<"n">>, TRUE>>,
     <<<<"/", "r">>, FALSE>>, <<<<"/", "r", "/", "a", "/", "b">>, TRUE>>,
     <<<<".", ".">>, FALSE>>, <<<<>>, TRUE>>, <<<<"c", ":">>, TRUE>>,
     <<<<"~">>, FALSE>>, <<<<"f">>, TRUE>>}

(* g is the stack of the scopes that are open, each with the working       *)
(* directory at its entry; a holds the destinations of the scopes opened   *)
(* so far and b is the working directory before the first                  *)
InitDirectory ==
    /\ osPosix \in BOOLEAN
    /\ posix = osPosix
    /\ a = <<>>
    /\ c = <<>>
    /\ pc = "start"
    /\ flags = [call |-> "none"]
    /\ x = None
    /\ y = None
    /\ fs \in DirectoryFiles
    /\ cwd \in {<<>>, <<jail>>, <<jail, <<"a">>>>}
    /\ b = cwd
    /\ scandir = "ascending"
    /\ root = None
    /\ f = None
    /\ g = <<>>

(* what __enter__ left: an exception in it leaves the block unentered and  *)
(* goes on to the scopes around it                                         *)
Entered(outcome) ==
    /\ x' = outcome.value
    /\ fs' = outcome.fs
    /\ cwd' = outcome.cwd
    /\ g' = IF outcome.value # None THEN g
            ELSE Append(g, [scope |-> outcome.self, entry |-> cwd])
    /\ pc' = IF outcome.value # None /\ g # <<>> THEN "raising" ELSE "start"

(* with directory(destination, make): the block is entered *)
Enter(destination, make) ==
    /\ pc = "start"
    /\ Len(a) < MaxScopes
    /\ a' = Append(a, destination)
    /\ flags' = [call |-> "enter", destination |-> destination,
                 make |-> make]
    /\ Entered(__enter__(directory(destination, make, osPosix), fs, cwd,
                         osPosix))
    /\ UNCHANGED <<osPosix, posix, b, c, y, scandir, root, f>>

(* the block of the innermost scope raises an exception *)
Raise ==
    /\ pc = "start"
    /\ g # <<>>
    /\ flags' = [call |-> "raise"]
    /\ pc' = "raising"
    /\ UNCHANGED <<pathVars, x, y, fileVars>>

(* what __exit__ left; y is the working directory at the entry of the      *)
(* scope                                                                    *)
Exited(outcome) ==
    /\ x' = outcome.value
    /\ cwd' = outcome.cwd

(* the block of the innermost scope ends, normally or with the exception   *)
(* that is on its way to the caller                                        *)
Exit ==
    /\ g # <<>>
    /\ flags' = [call |-> "exit", raised |-> pc = "raising",
                 depth |-> Len(g)]
    /\ Exited(__exit__(g[Len(g)].scope, fs, cwd, osPosix))
    /\ y' = g[Len(g)].entry
    /\ g' = SubSeq(g, 1, Len(g) - 1)
    /\ pc' = IF pc = "raising" /\ Len(g) > 1 THEN "raising" ELSE "start"
    /\ UNCHANGED <<pathVars, fs, scandir, root, f>>

NextDirectory ==
    \/ \E scope \in Destinations : Enter(scope[1], scope[2])
    \/ Raise
    \/ Exit

SpecDirectory == InitDirectory /\ [][NextDirectory]_vars

-----------------------------------------------------------------------------
(* Reading a file backwards: read(generator=True, lines=True, reverse=True) *)

MaxFileLen == 5    \* most characters of a file that is read backwards
MaxBlock == 6      \* largest block length of a read

(* the characters of a text file: letters and the line terminator *)
FileChar == {"a", "b", "\n"}

FileTexts == UNION {[1..n -> FileChar] : n \in 0..MaxFileLen}

InitReverse ==
    /\ osPosix = TRUE
    /\ posix = TRUE
    /\ a \in FileTexts
    /\ b \in 1..MaxBlock
    /\ c = <<>>
    /\ pc = "start"
    /\ flags = [call |-> "none"]
    /\ x = None
    /\ y = None
    /\ fs = (<<>> :> Dir)
    /\ cwd = <<>>
    /\ scandir = "ascending"
    /\ root = None
    /\ f = None
    /\ g = None

(* x = list(file.read(lines=True, reverse=True, length=b)) for a file of   *)
(* the characters a                                                        *)
ReadReverse ==
    /\ pc = "start"
    /\ flags' = [call |-> "readReverse"]
    /\ x' = _riter(a, b)
    /\ pc' = "called"
    /\ UNCHANGED <<pathVars, y, fileVars>>

NextReverse == ReadReverse

SpecReverse == InitReverse /\ [][NextReverse]_vars

-----------------------------------------------------------------------------
(* Archiving a directory: compress(root, name, files=, include=, inside=) *)

(* a jail directory r that holds some of the files a and b and of the      *)
(* directory d with its file e                                             *)
CompressFiles ==
    LET entry(names, leaf) == IF leaf = None THEN <<>> :> Dir
                              ELSE (<<jail>> \o names) :> leaf
    IN  {(<<>> :> Dir) @@ (<<jail>> :> Dir) @@ entry(<<<<"a">>>>, first)
            @@ entry(<<<<"b">>>>, second) @@ entry(<<<<"d">>>>, third)
            @@ (IF third = None THEN <<>> :> Dir
                ELSE entry(<<<<"d">>, <<"e">>>>, fourth)) :
            first, second, fourth \in {None, RegularFile(<<1>>, 0)},
            third \in {None, Dir}}

(* the directory of the jail, one that is not there and a file *)
CompressRoots == {<<"r">>, <<"n">>, <<"r", "/", "a">>}

(* no name, a name listed after the files of the jail and one before them *)
CompressNames == {<<>>, <<"c">>, <<"0">>}

(* no files, a file of the directory and a file of its directory *)
CompressLists == {<<>>, <<<<"a">>>>, <<<<"d", "/", "e">>>>}

InitCompress ==
    /\ osPosix \in BOOLEAN
    /\ posix = osPosix
    /\ a \in CompressRoots
    /\ b \in CompressNames
    /\ c \in CompressLists
    /\ pc = "start"
    /\ flags = [call |-> "none"]
    /\ x = None
    /\ y = None
    /\ fs \in CompressFiles
    /\ cwd = <<>>
    /\ scandir \in {"ascending", "descending"}
    /\ root = None
    /\ f = None
    /\ g = None

(* the state after compress: x is what it returned or raised, y the entries *)
(* of the archive                                                           *)
Compressed(archived) ==
    /\ x' = archived.value
    /\ y' = archived.entries
    /\ fs' = archived.fs
    /\ cwd' = archived.cwd

(* x = compress(a, b, files=c, include=include, inside=inside) *)
Compress(include, inside) ==
    /\ pc = "start"
    /\ flags' = [call |-> "compress", include |-> include, inside |-> inside]
    /\ Compressed(compress(a, b, c, include, inside, <<"s">>, fs, cwd, scandir,
                           osPosix))
    /\ pc' = "called"
    /\ UNCHANGED <<pathVars, scandir, root, f, g>>

NextCompress == \E include, inside \in BOOLEAN : Compress(include, inside)

SpecCompress == InitCompress /\ [][NextCompress]_vars

-----------------------------------------------------------------------------
(* Feeding lines: feed(file, headless=, tailless=) *)

MaxLines == 4      \* most lines of an iterable that is fed
MaxSkipped == 3    \* largest headless and largest tailless of a call

(* lines with and without text, with and without their terminator *)
FedLine == {<<"a">>, <<"b", "\n">>, <<"\n">>}

FedLines == UNION {[1..n -> FedLine] : n \in 0..MaxLines}

InitFeed ==
    /\ osPosix = TRUE
    /\ posix = TRUE
    /\ a \in FedLines
    /\ b = <<>>
    /\ c = <<>>
    /\ pc = "start"
    /\ flags = [call |-> "none"]
    /\ x = None
    /\ y = None
    /\ fs = (<<>> :> Dir)
    /\ cwd = <<>>
    /\ scandir = "ascending"
    /\ root = None
    /\ f = None
    /\ g = None

(* x = list(feed(a, ...)) for the list a, or for iter(a) when oneshot *)
Feed(oneshot, strip_, skip, headless, tailless) ==
    /\ pc = "start"
    /\ flags' = [call |-> "feed", oneshot |-> oneshot, strip |-> strip_,
                 skip |-> skip, headless |-> headless, tailless |-> tailless]
    /\ x' = feed(a, oneshot, strip_, skip, headless, tailless)
    /\ pc' = "called"
    /\ UNCHANGED <<pathVars, y, fileVars>>

NextFeed ==
    \E oneshot, strip_, skip \in BOOLEAN :
        \E headless, tailless \in 0..MaxSkipped :
            Feed(oneshot, strip_, skip, headless, tailless)

SpecFeed == InitFeed /\ [][NextFeed]_vars

-----------------------------------------------------------------------------
(* Setting the extension of a path: Path(a).extension(b) *)

(* extensions given with and without their dot *)
Identifiers == {<<"m">>, <<".", "m">>}

InitExtension ==
    /\ osPosix \in BOOLEAN
    /\ posix \in BOOLEAN
    /\ a \in Strings(MaxLen) \cup {<<"a", "b", "c", "/", ".", "p", "y">>}
    /\ b \in Identifiers
    /\ c = <<>>
    /\ pc = "start"
    /\ flags = [call |-> "none"]
    /\ x = <<>>
    /\ y = <<>>
    /\ fs = NoFiles
    /\ cwd = <<>>
    /\ scandir = "ascending"
    /\ root = None
    /\ f = None
    /\ g = None

(* x = Path(a).extension(b) *)
SetExtension ==
    /\ pc = "start"
    /\ flags' = [call |-> "extension"]
    /\ x' = extension(a, b, Sep, osPosix)
    /\ pc' = "called"
    /\ UNCHANGED <<pathVars, y, fileVars>>

NextExtension == SetExtension

SpecExtension == InitExtension /\ [][NextExtension]_vars

-----------------------------------------------------------------------------
(* One caller that advances two children() walks in turns: f walks the     *)
(* directory a of the jail and g its directory b                           *)

(* a and b hold a file each; each may hold a directory e with a file, and  *)
(* a may hold a directory r with a directory b of its own                  *)
InterleavedFiles ==
    LET some(given, entries) == IF given THEN entries ELSE (<<>> :> Dir)
    IN  {(<<>> :> Dir) @@ (<<jail>> :> Dir)
            @@ (<<jail, <<"a">>>> :> Dir)
            @@ (<<jail, <<"a">>, <<"m">>>> :> RegularFile(<<1>>, 0))
            @@ (<<jail, <<"b">>>> :> Dir)
            @@ (<<jail, <<"b">>, <<"n">>>> :> RegularFile(<<1>>, 0))
            @@ some(first,
                    (<<jail, <<"a">>, <<"e">>>> :> Dir)
                        @@ (<<jail, <<"a">>, <<"e">>, <<"s">>>>
                                :> RegularFile(<<1>>, 0)))
            @@ some(second,
                    (<<jail, <<"b">>, <<"e">>>> :> Dir)
                        @@ (<<jail, <<"b">>, <<"e">>, <<"t">>>>
                                :> RegularFile(<<1>>, 0)))
            @@ some(third,
                    (<<jail, <<"a">>, jail>> :> Dir)
                        @@ (<<jail, <<"a">>, jail, <<"b">>>> :> Dir)
                        @@ (<<jail, <<"a">>, jail, <<"b">>, <<"u">>>>
                                :> RegularFile(<<1>>, 0))) :
            first, second, third \in BOOLEAN}

InitInterleaved ==
    /\ osPosix \in BOOLEAN
    /\ posix = osPosix
    /\ a = <<"/", "a">>
    /\ b = <<"/", "b">>
    /\ c = <<>>
    /\ pc = "start"
    /\ flags = [call |-> "none"]
    /\ x = None
    /\ y = <<>>
    /\ fs \in InterleavedFiles
    /\ cwd = <<>>
    /\ scandir \in {"ascending", "descending"}
    /\ root = Str(JailRoot(osPosix))
    /\ \E recursive \in BOOLEAN :
          f = generator(FileInit(Str(a), root, cwd, osPosix),
                        [DescendantsDefaults EXCEPT !.recursive = recursive])
    /\ \E recursive \in BOOLEAN :
          g = generator(FileInit(Str(b), root, cwd, osPosix),
                        [DescendantsDefaults EXCEPT !.recursive = recursive])

(* the caller is done with a walk that is exhausted or that raised *)
Advanced(one, another) ==
    IF one.pos \in {"done", "raised"} /\ another.pos \in {"done", "raised"}
    THEN "exhausted" ELSE "start"

(* x = next(f); y is the working directory the caller had before *)
AdvanceFirst(stepped) ==
    /\ f.pos \in {"created", "suspended"}
    /\ flags' = [call |-> "next", walk |-> "f"]
    /\ x' = stepped.value
    /\ f' = stepped.gen
    /\ cwd' = stepped.cwd
    /\ pc' = Advanced(stepped.gen, g)
    /\ UNCHANGED <<pathVars, y, fs, scandir, root, g>>

(* x = next(g) *)
AdvanceSecond(stepped) ==
    /\ g.pos \in {"created", "suspended"}
    /\ flags' = [call |-> "next", walk |-> "g"]
    /\ x' = stepped.value
    /\ g' = stepped.gen
    /\ cwd' = stepped.cwd
    /\ pc' = Advanced(f, stepped.gen)
    /\ UNCHANGED <<pathVars, y, fs, scandir, root, f>>

NextInterleaved ==
    \/ AdvanceFirst(_descendants_next(f, fs, cwd, scandir, osPosix))
    \/ AdvanceSecond(_descendants_next(g, fs, cwd, scandir, osPosix))

SpecInterleaved == InitInterleaved /\ [][NextInterleaved]_vars

-----------------------------------------------------------------------------
(* The caller of the transfers: a File of the jail that is copied or moved *)
(* to every path of WritePaths, its own and that of the root too           *)

(* x = f.copy(path, overwrite), or what it raises; y is the state before   *)
(* the call                                                                *)
Copy(path, overwrite) ==
    /\ pc = "start"
    /\ flags' = [call |-> "copy", path |-> path, overwrite |-> overwrite]
    /\ Returned(copy(f, path, overwrite, fs, cwd, scandir, osPosix))
    /\ y' = [fs |-> fs, f |-> f]
    /\ pc' = "called"
    /\ UNCHANGED <<pathVars, cwd, scandir, root, f, g>>

NextTransfer ==
    \/ \E path \in WritePaths : \E overwrite \in -1..MaxOverwrite :
            Copy(path, overwrite)
    \/ \E path \in WritePaths : \E overwrite \in -1..MaxOverwrite :
            Move(path, overwrite)

SpecTransfer == InitWrite /\ [][NextTransfer]_vars

-----------------------------------------------------------------------------
(* The caller of read: a File of the jail that is read and whose lazy      *)
(* sequence is consumed after read has returned                            *)

MaxRead == 3       \* most bytes of a file that is read

(* a byte and the line terminator *)
ReadContents == UNION {[1..n -> {1, 10}] : n \in 0..MaxRead}

ReadFiles ==
    {(<<>> :> Dir) @@ (<<jail>> :> Dir)
        @@ (<<jail, <<"a">>>> :> RegularFile(content, 0))
        @@ (<<jail, <<"d">>>> :> Dir) : content \in ReadContents}

InitRead ==
    /\ osPosix \in BOOLEAN
    /\ posix = osPosix
    /\ a \in {<<"/", "a">>, <<"/", "n">>, <<"/", "d">>}
    /\ b = <<>>
    /\ c = <<>>
    /\ pc = "start"
    /\ flags = [call |-> "none"]
    /\ x = None
    /\ y = 0
    /\ fs \in ReadFiles
    /\ cwd = <<>>
    /\ scandir = "ascending"
    /\ root = Str(JailRoot(osPosix))
    /\ f = FileInit(Str(a), root, cwd, osPosix)
    /\ g = None

(* g = f.read(generator, lines, blocks, length=length): read has returned  *)
(* when the action is over                                                 *)
Read(generator_, lines, blocks, length) ==
    /\ pc = "start"
    /\ flags' = [call |-> "read", generator |-> generator_, lines |-> lines,
                 blocks |-> blocks, length |-> length]
    /\ g' = read_forward(f, generator_, lines, blocks, length, fs, cwd, osPosix)
    /\ x' = g'
    /\ pc' = IF g'.kind = "stream" THEN "returned" ELSE "called"
    /\ UNCHANGED <<pathVars, y, fs, cwd, scandir, root, f>>

(* x = next(g): the consumer asks the lazy sequence for its next element;  *)
(* y counts the elements taken                                             *)
NextElement ==
    /\ pc = "returned"
    /\ flags' = [call |-> "next", generator |-> TRUE, lines |-> flags.lines,
                 blocks |-> flags.blocks, length |-> flags.length]
    /\ x' = next_element(g, y)
    /\ y' = y + 1
    /\ pc' = IF x'.kind = "error" THEN "called" ELSE "returned"
    /\ UNCHANGED <<pathVars, fileVars>>

(* x = f._checksum(algorithm) for a file *)
ChecksumFile(algorithm) ==
    /\ pc = "start"
    /\ flags' = [call |-> "checksum", algorithm |-> algorithm]
    /\ x' = _checksum(f, algorithm, fs, cwd, scandir, osPosix)
    /\ pc' = "called"
    /\ UNCHANGED <<pathVars, y, fileVars>>

(* x = f._count_lines() *)
CountLines ==
    /\ pc = "start"
    /\ flags' = [call |-> "countLines"]
    /\ x' = _count_lines(f, 0, fs, cwd, osPosix)
    /\ pc' = "called"
    /\ UNCHANGED <<pathVars, y, fileVars>>

NextRead ==
    \/ \E generator_, lines, blocks \in BOOLEAN : \E length \in 1..MaxRead :
            Read(generator_, lines, blocks, length)
    \/ NextElement
    \/ \E algorithm \in {"crc32", "md5"} : ChecksumFile(algorithm)
    \/ CountLines

SpecRead == InitRead /\ [][NextRead]_vars

-----------------------------------------------------------------------------
(* Properties of the path algebra *)

(* the names of a path: its pieces between separators of either style *)
Names(path) == NamesBy(path, _SEPARATORS)

Rooted(path) == startswith(path, _SEPARATORS)

Defaults == pc = "normalised" /\ flags.collapse /\ flags.resolve
                /\ ~flags.absolute

(* C3: normalise with collapse and resolve on keeps the rootedness of its  *)
(* input: the result begins with a separator iff the input did, so that    *)
(* '/abc/../' gives '/' and '/abc/../xyz' gives '/xyz'                      *)
C3_RootedPreserved ==
    Defaults => /\ Rooted(x) <=> Rooted(a)
                /\ (a = <<"/","a","b","c","/",".",".","/">> => x = <<Sep>>)

(* C4: normalising the result of normalise again, with the same flags,     *)
(* gives the same string                                                   *)
C4_NormaliseIdempotent ==
    pc = "normalised" =>
        normalise(x, Sep, flags.collapse, flags.resolve, flags.absolute) = x

C4_Witness ==
    /\ pc = "normalised"
    /\ flags.absolute
    /\ ~flags.collapse
    /\ x # a
    /\ ~Rooted(a)
    /\ pardir \in {Names(a)[i] : i \in 1..Len(Names(a))}

(* C5 as stated: with collapse on and resolve off only the '.' segments    *)
(* are dropped and every '..' segment stays                                *)
C5_ParentsKept ==
    (pc = "normalised" /\ flags.collapse /\ ~flags.resolve) =>
        SelectSeq(Names(x), LAMBDA n : n = pardir)
            = SelectSeq(Names(a), LAMBDA n : n = pardir)

(* C5 amended: with collapse on and resolve off both the '.' and the '..'  *)
(* segments are dropped and every other segment is kept, in order, so      *)
(* '123/../abc.md' becomes '123/abc.md'; with resolve on it is 'abc.md'    *)
C5_MarkersDropped ==
    (pc = "normalised" /\ flags.collapse) =>
        /\ ~flags.resolve =>
              Names(x) = SelectSeq(Names(a),
                                   LAMBDA n : n \notin {curdir, pardir})
        /\ a = <<"1","2","3","/",".",".","/","a","b","c",".","m","d">> =>
              Names(x) = IF flags.resolve
                         THEN << <<"a","b","c",".","m","d">> >>
                         ELSE << <<"1","2","3">>, <<"a","b","c",".","m","d">> >>

C5_Witness ==
    /\ pc = "normalised" /\ flags.collapse /\ ~flags.resolve
    /\ a = <<"1","2","3","/",".",".","/","a","b","c",".","m","d">>
    /\ x = <<"1","2","3",Sep,"a","b","c",".","m","d">>

(* C6: join is associative up to normalisation, whatever the flags of the  *)
(* normalisation                                                           *)
C6_JoinAssociative ==
    pc = "joined" =>
        \A collapse, resolve, absolute \in BOOLEAN :
            normalise(x, Sep, collapse, resolve, absolute)
                = normalise(y, Sep, collapse, resolve, absolute)

C6_Witness ==
    /\ pc = "joined"
    /\ a # <<>> /\ ~endswith(a, _SEPARATORS)
    /\ b # <<>> /\ ~Rooted(b)
    /\ Rooted(c) /\ Names(c) # <<>>
    /\ Len(Names(x)) = 3

-----------------------------------------------------------------------------
(* Properties of File construction *)

IsPrefix(s, t) == Len(s) <= Len(t) /\ SubSeq(t, 1, Len(s)) = s

(* path lies beneath the directory top: top's names are first in path, and *)
(* path is rooted when top is                                              *)
Beneath(top, path) ==
    /\ IsPrefix(Names(top), Names(path))
    /\ Rooted(top) => Rooted(path)

(* C1: the full path and the full parent path of File(p, R) begin with R,  *)
(* whatever '.', '..' and separators p is made of                          *)
C1_FullPathBeneathRoot ==
    pc = "constructed" =>
        /\ Beneath(root.path, f.full_path)
        /\ Beneath(root.path, f.full_parent_path)

(* C2: every path returned by child or sibling with full=True, and the     *)
(* full path of every instance returned with instance=True, has the names  *)
(* of the root as its first names                                          *)
C2_DescendantBeneathRoot ==
    pc \in {"child", "sibling"} =>
        /\ x.kind = "File" => IsPrefix(Names(f.root), Names(x.full_path))
        /\ (x.kind = "str" /\ flags.full) =>
               IsPrefix(Names(f.root), Names(x.path))

(* C7: a File made from another File has that File's root and logical      *)
(* path, with no root argument and with any root argument                  *)
C7_CopiesRootAndPath ==
    pc = "copied" =>
        /\ g.kind = "File"
        /\ g.root = f.root
        /\ g.path = f.path

-----------------------------------------------------------------------------
(* Properties of File.compare *)

IsDirectory(file) == _directory(file, fs, cwd, osPosix)
IsFile(file) == _file(file, fs, cwd, osPosix)
At(file) == osLocate(file.full_path, cwd, osPosix)

(* two directories hold the same names, the common files are byte for byte *)
(* the same and, when recursing, the common directories are the same too   *)
RECURSIVE SameTree(_, _, _)
SameTree(left, right, recurse) ==
    /\ listdir(left, fs) = listdir(right, fs)
    /\ \A n \in listdir(left, fs) :
         LET l == fs[Append(left, n)]
             r == fs[Append(right, n)]
         IN  /\ l.kind = r.kind
             /\ l.kind = "file" => l.content = r.content
             /\ (l.kind = "dir" /\ recurse) =>
                    SameTree(Append(left, n), Append(right, n), recurse)

(* C8: a directory is greater than a file and a file is not greater than a *)
(* directory, whatever their sizes, and the comparison returns a boolean   *)
C8_DirectoryGreaterThanFile ==
    (pc = "compared" /\ flags.call = "gt") =>
        /\ (IsDirectory(f) /\ IsFile(g)) => x = Bool(TRUE)
        /\ (IsFile(f) /\ IsDirectory(g)) => x = Bool(FALSE)

(* C9: a directory and a file are not equal: == is false and != is true,   *)
(* and compare(method='equality') answers the same with inverse off and on *)
C9_DirectoryUnequalToFile ==
    (pc = "compared" /\ ((IsDirectory(f) /\ IsFile(g))
                            \/ (IsFile(f) /\ IsDirectory(g)))) =>
        /\ flags.call = "eq" => x = Bool(FALSE)
        /\ flags.call = "ne" => x = Bool(TRUE)
        /\ (flags.call = "compare" /\ flags.method = "equality") =>
               x = Bool(flags.inverse)

(* C10: the comparison of two directories with shallow=False is true iff   *)
(* the two trees hold the same entries with the same bytes                 *)
C10_DeepEqualityOfDirectories ==
    (/\ pc = "compared" /\ flags.call = "compare"
     /\ flags.method = "equality" /\ ~flags.shallow /\ ~flags.inverse
     /\ IsDirectory(f) /\ IsDirectory(g)) =>
        (x = Bool(TRUE) <=> SameTree(At(f), At(g), flags.recurse))

-----------------------------------------------------------------------------
(* Properties of the walks *)

(* the contents of the files below a directory, in the order the listing   *)
(* enumerates them: level by level of the walk, file by file of a level    *)
RECURSIVE BytesOf(_, _)
BytesOf(top, names) ==
    IF names = <<>> THEN <<>>
    ELSE fs[Append(top, Head(names))].content \o BytesOf(top, Tail(names))

RECURSIVE BytesBelow(_)
BytesBelow(levels) ==
    IF levels = <<>> THEN <<>>
    ELSE BytesOf(Head(levels).top, Head(levels).nondirs)
             \o BytesBelow(Tail(levels))

(* C11: the checksum of an existing directory is a value, the algorithm    *)
(* applied to the bytes of every descendant file one after the other in    *)
(* the order the listing enumerates the files                              *)
C11_DirectoryChecksumOfBytes ==
    (pc = "called" /\ flags.call = "checksum" /\ IsDirectory(f)) =>
        x = digest(flags.algorithm, BytesBelow(walk(At(f), fs, scandir)))

(* the logical path of a directory below the directory that is listed *)
RECURSIVE Slashed(_)
Slashed(names) ==
    IF names = <<>> THEN <<>>
    ELSE IF Len(names) = 1 THEN Head(names)
    ELSE Head(names) \o <<"/">> \o Slashed(Tail(names))

(* the record of one directory visited by the walk from a directory *)
RecordOf(top, level) ==
    ("path" :> Slashed(SubSeq(level.top, Len(top) + 1, Len(level.top))))
        @@ ("content" :> level.dirs \o level.nondirs)

Levels == walk(At(f), fs, scandir)

Listing(recursive) ==
    /\ pc = "called" /\ flags.call = "children"
    /\ flags.recursive = recursive /\ IsDirectory(f)

C20_OnlyTheTopLevel ==
    Listing(FALSE) =>
        /\ x.kind = "list"
        /\ Len(x.val) <= 1
        /\ \A i \in 1..Len(x.val) : x.val[i] = RecordOf(At(f), Levels[1])

(* the entries below a directory: all of them, or those it holds itself *)
Below(top, recurse) ==
    {q \in DOMAIN fs :
        /\ Len(q) > Len(top) /\ SubSeq(q, 1, Len(top)) = top
        /\ recurse \/ Len(q) = Len(top) + 1}

FilesBelow(top, recurse) == {q \in Below(top, recurse) : fs[q].kind = "file"}
DirectoriesBelow(top, recurse) ==
    {q \in Below(top, recurse) : fs[q].kind = "dir"}

Called(call) == pc = "called" /\ flags.call = call

(* C16: a directory is empty iff no file is listed below it, a file iff    *)
(* its size is 0, and of a path that does not exist the answer is None     *)
C16_EmptyMeansNoFile ==
    Called("empty") =>
        /\ IsDirectory(f) => x = Bool(FilesBelow(At(f), TRUE) = {})
        /\ IsFile(f) => x = Bool(fs[At(f)].content = <<>>)
        /\ (~IsDirectory(f) /\ ~IsFile(f)) => x = None

(* C17: the size of a directory under a limit L > 0 is True iff the sizes  *)
(* of the files the walk visits add up to L or more, and their sum if not  *)
C17_SizeUnderLimit ==
    (Called("size") /\ flags.limit > 0 /\ IsDirectory(f)) =>
        LET total == sizeSum(FilesBelow(At(f), flags.recurse), fs)
        IN  x = IF total >= flags.limit THEN Bool(TRUE)
                ELSE [kind |-> "int", val |-> total]

(* the counter a limit is tested against *)
Limited(top, recurse) ==
    IF flags.limit_files = flags.limit_directories
    THEN Cardinality(Below(top, recurse))
    ELSE IF flags.limit_files THEN Cardinality(FilesBelow(top, recurse))
    ELSE Cardinality(DirectoriesBelow(top, recurse))

(* C18: the count of a directory under a limit L is True iff the counter   *)
(* of the flags, the combined count when both or neither is set, the file  *)
(* count or the directory count when one is, reaches L after some level    *)
(* of the walk; if not it is the full count, both counts when separate,    *)
(* whose sum is the combined count                                         *)
C18_CountUnderLimit ==
    (Called("count") /\ IsDirectory(f)) =>
        IF flags.limit > 0 /\ Limited(At(f), flags.recurse) >= flags.limit
        THEN x = Bool(TRUE)
        ELSE IF flags.separate
        THEN /\ x = [kind |-> "dict",
                     directories |->
                         Cardinality(DirectoriesBelow(At(f), flags.recurse)),
                     files |-> Cardinality(FilesBelow(At(f), flags.recurse))]
             /\ x.directories + x.files
                    = Cardinality(Below(At(f), flags.recurse))
        ELSE x = [kind |-> "int",
                  val |-> Cardinality(Below(At(f), flags.recurse))]

(* a limit on the files alone that the combined count reaches and the file *)
(* count does not                                                          *)
C18_Witness ==
    /\ Called("count") /\ IsDirectory(f) /\ flags.recurse
    /\ flags.limit_files /\ ~flags.limit_directories /\ flags.limit = 2
    /\ Cardinality(FilesBelow(At(f), TRUE)) = 1
    /\ Cardinality(Below(At(f), TRUE)) >= 3
    /\ flags.separate /\ x.kind = "dict" /\ x.files = 1

-----------------------------------------------------------------------------
(* Properties of write, move and _resolve.  y holds the filesystem and the *)
(* File before the call.                                                   *)

Exists(file) == _existence(file, fs, cwd, osPosix)

(* C12: the File _resolve returns does not exist when the call is made,    *)
(* for every File, the root '/' too, and the call leaves the filesystem    *)
(* as it was                                                               *)
C12_ResolvedDoesNotExist ==
    Called("resolve") =>
        /\ x.kind = "File"
        /\ ~Exists(x)
        /\ fs = y.fs

(* the name of a file without its extension, and the extension *)
BaseName(name_) == splitext(name_, osPosix)[1]
Extension(name_) == splitext(name_, osPosix)[2]

(* the files next to a File that share the base of its name and have       *)
(* another extension                                                       *)
SameBaseFiles(file) ==
    {n \in listdir(holder(At(file)), fs) :
        /\ fs[Append(holder(At(file)), n)].kind = "file"
        /\ BaseName(n) = BaseName(file.name)
        /\ Extension(n) # Extension(file.name)}

(* C13: when write(content, overwrite=2) has returned the destination, no  *)
(* other file of its directory has the base name of the destination with   *)
(* another extension, whether the destination was there before or not      *)
C13_UniqueBaseAfterWrite ==
    (Called("write") /\ flags.overwrite = 2 /\ x.kind = "File") =>
        SameBaseFiles(x) = {}

(* the entries at and below a location are as they were before the call *)
Kept(at) ==
    \A q \in under(at, y.fs) : q \in DOMAIN fs /\ fs[q] = y.fs[q]

(* C14: when move returns a destination the source is gone from its former *)
(* full path, the destination is there and the instance is the             *)
(* destination; and the source is taken away only when the copy has        *)
(* succeeded: after a move that raises, or returns False, it is as before  *)
C14_MoveCopiesThenDeletes ==
    Called("move") =>
        /\ x.kind = "File" =>
              /\ osLocate(y.f.full_path, cwd, osPosix) \notin DOMAIN fs
              /\ Exists(x)
              /\ f.path = x.path /\ f.name = x.name
              /\ f.parent_path = x.parent_path
              /\ f.full_path = x.full_path
        /\ x.kind # "File" => Kept(osLocate(y.f.full_path, cwd, osPosix))

(* an upload whose extension, in lower case, is none of the allowed ones *)
NotAllowed(filename) ==
    \A e \in Allowed :
        ~ /\ Len(filename) > Len(e)
          /\ filename[Len(filename) - Len(e)] = "."
          /\ lower(SubSeq(filename, Len(filename) - Len(e) + 1,
                          Len(filename))) = e

(* C15: a write of an upload whose extension is not allowed raises         *)
(* StorageNotAllowed and leaves the filesystem exactly as it was, at every *)
(* overwrite level                                                         *)
C15_NotAllowedChangesNothing ==
    (Called("upload") /\ NotAllowed(flags.filename)) =>
        /\ x = Raised("StorageNotAllowed")
        /\ fs = y.fs

(* an upload that is not allowed onto an existing target with a sibling of *)
(* the same base, at the level that would remove both                      *)
C15_Witness ==
    /\ Called("upload") /\ flags.filename = <<"u", ".", "t">>
    /\ flags.overwrite = 2
    /\ a = <<"/", "a", ".", "m">>
    /\ <<jail, <<"a", ".", "m">>>> \in DOMAIN fs
    /\ <<jail, <<"a">>>> \in DOMAIN fs
    /\ x = Raised("StorageNotAllowed")
    /\ fs = y.fs

-----------------------------------------------------------------------------
(* Properties of File(path, root, match=True) *)

(* the names of the parent directory of f that start with the name of f *)
Matching ==
    {n \in listdir(osLocate(f.full_parent_path, cwd, osPosix), fs) :
        IsPrefix(f.name, n)}

(* C21: with match=True and a parent directory that is there, the File has *)
(* the alphabetically first name of the directory that starts with the     *)
(* partial name, in whatever order the host lists the directory; without   *)
(* such a name, path and name are those of the construction without match  *)
C21_AdoptsAlphabeticallyFirst ==
    (Called("match") /\ isdir(f.full_parent_path, fs, cwd, osPosix)) =>
        IF Matching = {} THEN x.path = f.path /\ x.name = f.name
        ELSE x.name = Head(sorted(Matching))

-----------------------------------------------------------------------------
(* Properties of the directory scopes *)

(* C22: when a scope is left, normally or through an exception, the        *)
(* working directory is the one at the entry of that scope, and when the   *)
(* outermost scope is left it is the one before the first scope            *)
C22_ExitRestoresEntry ==
    (flags.call = "exit") =>
        /\ x = None
        /\ cwd = y
        /\ (g = <<>> => cwd = b)

(* a scope three deep is left through an exception, back to the directory  *)
(* that the scope around it had made and entered                           *)
C22_Witness ==
    /\ flags.call = "exit"
    /\ flags.raised
    /\ flags.depth >= 3
    /\ cwd = <<jail, <<"a">>, <<"n">>>>
    /\ cwd # b
    /\ g[Len(g)].scope.make

-----------------------------------------------------------------------------
(* Properties of reading a file backwards *)

(* the lines of a text, first to last, without their terminators *)
LinesOf(text) ==
    IF text = <<>> THEN <<>>
    ELSE IF text[Len(text)] = "\n"
    THEN rsplitAll(SubSeq(text, 1, Len(text) - 1), "\n")
    ELSE rsplitAll(text, "\n")

Reversed(s) == [i \in 1..Len(s) |-> s[Len(s) + 1 - i]]

(* C23: for every file and every block length of at least 1, the lines    *)
(* read backwards are the lines of the file from the last to the first,   *)
(* each once and whole, and none for an empty file                        *)
C23_ReverseYieldsLines ==
    Called("readReverse") => x = Reversed(LinesOf(a))

-----------------------------------------------------------------------------
(* Properties of compress *)

(* C24: with inside=True and a directory to archive, no entry of the      *)
(* archive is the archive itself, in whatever order the host lists the    *)
(* directory and whatever else the directory holds                        *)
C24_ArchiveNotInItself ==
    (Called("compress") /\ flags.inside /\ x.kind = "str") =>
        \A i \in 1..Len(y) :
            osLocate(y[i], <<jail>>, osPosix)
                # osLocate(x.path, <<jail>>, osPosix)

-----------------------------------------------------------------------------
(* Properties of feed *)

(* C25: feed with headless=h and tailless=t gives the lines of the input  *)
(* without the first h and the last t, in their order and each once, for  *)
(* a list and for a one-shot iterator, with and without headless          *)
C25_FeedDropsHeadAndTail ==
    (Called("feed") /\ ~flags.strip /\ ~flags.skip) =>
        x = SubSeq(a, flags.headless + 1, Len(a) - flags.tailless)

-----------------------------------------------------------------------------
(* Properties of Path.extension *)

(* C26: for a path with a name and an extension without separators,       *)
(* extension(b) changes only the extension of the last segment: the       *)
(* parent of the result is the parent of the path, and the extension of   *)
(* the result is a dot and b without its leading dot                      *)
C26_ExtensionKeepsParent ==
    (Called("extension") /\ split(a, Sep, 1)[2] # <<>>) =>
        /\ split(x, Sep, 1)[1] = split(a, Sep, 1)[1]
        /\ _split_extension(x, FALSE, Sep, osPosix)[2]
               = <<".">> \o lstrip(b, {"."})

-----------------------------------------------------------------------------
(* Properties of File.__ne__ *)

(* C27: for every pair of Files and every state of the filesystem, each   *)
(* of the two missing, a file or a directory, f != g is the negation of   *)
(* f == g                                                                 *)
C27_NotEqualNegatesEqual ==
    (pc = "compared" /\ flags.call = "ne") =>
        /\ x.kind = "bool"
        /\ x.val = ~operator("eq", f, g, fs, cwd, osPosix).val

-----------------------------------------------------------------------------
(* Properties of interleaved walks *)

(* the directory a walk was made for, from the working directory of the    *)
(* caller when the walk was made                                           *)
OwnDirectory(gen) == osLocate(gen.file.full_path, <<>>, osPosix)

(* every record of a walk lists the entries of the directory of its path   *)
(* in the tree of the walk                                                 *)
OwnRecords(gen) ==
    \A i \in 1..Len(gen.records) :
        LET at == OwnDirectory(gen) \o NamesBy(gen.records[i].path, {"/"})
        IN  /\ at \in DOMAIN fs
            /\ {gen.records[i].content[k] :
                   k \in 1..Len(gen.records[i].content)} = listdir(at, fs)

(* C28: when two walks over different directories, advanced in turns by   *)
(* one caller, are both exhausted, the working directory is the one from  *)
(* before the first walk started, and every record of a walk lists        *)
(* entries of the tree of that walk                                       *)
C28_InterleavedWalksRestore ==
    (pc = "exhausted" /\ f.pos = "done" /\ g.pos = "done") =>
        cwd = <<>> /\ OwnRecords(f) /\ OwnRecords(g)

-----------------------------------------------------------------------------
(* Properties of copy and move *)

(* what was at and below a location before the call is at and below        *)
(* another location after it                                               *)
Transferred(from, to) ==
    \A q \in under(from, y.fs) :
        LET p == to \o SubSeq(q, Len(from) + 1, Len(q))
        IN  /\ p \in DOMAIN fs
            /\ fs[p].kind = y.fs[q].kind
            /\ fs[p].kind = "file" => fs[p].content = y.fs[q].content

(* C29: copy and move do not destroy what they transfer: for every source *)
(* that is there, every destination, the path of the source and of a      *)
(* directory that holds it too, and every overwrite level, the content of *)
(* the source is at the source or at the destination after the call,      *)
(* whether it returned or raised                                          *)
C29_TransferKeepsData ==
    ((Called("copy") \/ Called("move"))
        /\ osLocate(y.f.full_path, cwd, osPosix) \in DOMAIN y.fs) =>
        \/ Kept(osLocate(y.f.full_path, cwd, osPosix))
        \/ x.kind = "File"
              /\ Transferred(osLocate(y.f.full_path, cwd, osPosix), At(x))

-----------------------------------------------------------------------------
(* Properties of the lazy sequences of read *)

(* C30: a lazy sequence that read(generator=True) returned in forward     *)
(* mode, by lines or by blocks, can be consumed after read has returned:  *)
(* the file object is open whenever the consumer asks for the next        *)
(* element, so that the checksum of a file and the count of its lines     *)
(* get the contents of the file                                           *)
C30_LazySequenceConsumable ==
    /\ pc = "returned" => ~g.closed
    /\ flags.call = "next" => x # Raised("ValueError")
    /\ (Called("checksum") /\ IsFile(f)) =>
           x = digest(flags.algorithm, fs[At(f)].content)
    /\ (Called("countLines") /\ IsFile(f)) => x.kind # "error"

====
